---------------------------- MODULE Spec2Model ----------------------------
(***************************************************************************)
(* A model of parts of the wasmer runtime:                                 *)
(*                                                                         *)
(*   - VMOffsets (lib/compiler/src/vm.rs): the byte-offset calculator for  *)
(*     the VMContext, with its u32 arithmetic kept at 32 bits;             *)
(*   - ModuleEnvironment (lib/compiler/src/translator/environ.rs): the     *)
(*     declare_* operations that fill the module during translation;       *)
(*   - Tunables::for_target (lib/compiler/src/tunables.rs);                *)
(*   - Artifact::instantiate and finish_instantiation                      *)
(*     (lib/engine/src/artifact.rs), one step per call they make;          *)
(*   - the early exit example (examples/early_exit.rs);                    *)
(*   - Func, the host function wrappers and the arrays of WasmTypeList     *)
(*     (lib/wasm-common/src/native.rs);                                    *)
(*   - SourceLoc (lib/compiler/src/sourceloc.rs);                          *)
(*   - ModuleEnvironment::translate and VMOffsets::new for the module it   *)
(*     returns;                                                            *)
(*   - CompiledFunctionUnwindInfo (lib/compiler/src/unwind.rs);            *)
(*   - Compilation (lib/compiler/src/function.rs).                         *)
(*                                                                         *)
(* A u32 is kept as two 16-bit limbs [hi, lo], so that values up to and    *)
(* beyond 2^32 can be told apart: an exact (mathematical) result is a      *)
(* number whose hi limb may exceed 16 bits, and a u32 is one whose hi limb *)
(* fits.                                                                   *)
(***************************************************************************)
EXTENDS Integers, Sequences, FiniteSets, TLC

VARIABLES
    overflow_checks,    \* build setting: unchecked integer overflow panics
    offsets,            \* the VMOffsets value under inspection
    ret,                \* the last VMOffsets call: function, index, outcome
    debug_assertions,   \* build setting: debug_assert! is compiled in
    module,             \* ModuleEnvironment.result.module
    imports,            \* ModuleEnvironment.imports (the import counter)
    status,             \* "ok", or how the process or the translation failed
    triple,             \* the target Tunables::for_target is called with
    tunables,           \* the Tunables it returned, if it was called
    artifact,           \* the Artifact: the imports its module declares and
                        \* its data initializers
    resolver,           \* the names the resolver of the current call supplies
    calls,              \* the number of instantiate calls begun
    pc,                 \* the position of the current instantiate call
    locals,             \* the local values of the current instantiate call
    live,               \* the resources created and not yet dropped
    frame_info,         \* the artifact's frame info is in the global registry
    result,             \* what the current instantiate call returned
    finished,           \* what finish_instantiation returned for its handle
    handed,             \* history: the data initializers it gave the handle
    trace,              \* history: the steps of the current call, in order
    raised,             \* history: the error or trap a step of the call gave
    host_raises,        \* the payload the host function raises, if it raises
    args,               \* the arguments the exported function is called with
    stack,              \* the call stack: main, Wasm and host frames
    executed,           \* history: the Wasm instructions of run executed
    unwinding,          \* the payload being carried up the stack, if any
    call_ret,           \* what the call of the exported function returned
    main_ret,           \* how main ended
    subject,            \* the value a pure function is applied to
    outcome             \* the last application: the function and its result

vmVars  == <<overflow_checks, offsets, ret>>
envVars == <<debug_assertions, module, imports, status>>
tunVars == <<triple, tunables>>
artVars == <<artifact, resolver, calls, pc, locals, live, frame_info, result,
             finished, handed, trace, raised>>
exVars  == <<host_raises, args, stack, executed, unwinding, call_ret, main_ret>>
fnVars  == <<subject, outcome>>
vars    == <<vmVars, envVars, tunVars, artVars, exVars, fnVars>>

\* What the functions of one part leave alone.
nonVmVars  == <<envVars, tunVars, artVars, exVars, fnVars>>
nonEnvVars == <<vmVars, tunVars, artVars, exVars, fnVars>>
nonTunVars == <<vmVars, debug_assertions, module, imports, artVars, exVars, fnVars>>
nonArtVars == <<vmVars, envVars, tunVars, exVars, fnVars>>
nonExVars  == <<vmVars, envVars, tunVars, artVars, fnVars>>
nonFnVars  == <<vmVars, envVars, tunVars, artVars, exVars>>

----------------------------------------------------------------------------
(* Bounds of the model. *)

\* The small counts of one VMOffsets add up to at most MaxTotal.
MaxTotal == 2
\* Accessors are called with the indices from 0 to IndexSlack past the count.
IndexSlack == 1
\* The module under translation holds at most MaxEntities entities.
MaxEntities == 3
\* An artifact is instantiated at most MaxInstantiations times.
MaxInstantiations == 2
\* A host function returns at most MaxResults values.
MaxResults == 2

----------------------------------------------------------------------------
(* 32-bit unsigned arithmetic on 16-bit limbs. *)

Limb == 256 * 256

U32(h, l) == [hi |-> h, lo |-> l]

FromInt(n) == [hi |-> n \div Limb, lo |-> n % Limb]

Zero == U32(0, 0)

\* The outcome of a call that failed the process (a panic).
Panic == [hi |-> -1, lo |-> 0]

IsPanic(x) == x.hi < 0

\* x fits in 32 bits.
IsU32(x) == x.hi >= 0 /\ x.hi < Limb

\* The low 32 bits of x.
Wrap(x) == [hi |-> x.hi % Limb, lo |-> x.lo]

\* Exact sum and exact product by a small factor (no wrap).
MAdd(a, b) ==
    LET s == a.lo + b.lo
    IN  [hi |-> a.hi + b.hi + (s \div Limb), lo |-> s % Limb]

MMul(a, k) ==
    LET p == a.lo * k
    IN  [hi |-> (a.hi * k) + (p \div Limb), lo |-> p % Limb]

\* Exact quotient by a small divisor.
MDiv(a, k) ==
    LET r == a.hi % k
    IN  [hi |-> a.hi \div k, lo |-> ((r * Limb) + a.lo) \div k]

Lt(a, b) == a.hi < b.hi \/ (a.hi = b.hi /\ a.lo < b.lo)

Le(a, b) == a = b \/ Lt(a, b)

\* u32::checked_add(..).unwrap(): the exact sum, or a panic.
checked_add(a, b) ==
    IF IsPanic(a) \/ IsPanic(b) THEN Panic
    ELSE LET s == MAdd(a, b) IN IF IsU32(s) THEN s ELSE Panic

\* u32::checked_mul(u32::from(k)).unwrap() for a u8 factor k.
checked_mul(a, k) ==
    IF IsPanic(a) THEN Panic
    ELSE LET p == MMul(a, k) IN IF IsU32(p) THEN p ELSE Panic

\* The plain operators + and * on u32: on overflow they panic in a build
\* with overflow checks and wrap modulo 2^32 in a build without.
plain_add(a, b) ==
    IF IsPanic(a) \/ IsPanic(b) THEN Panic
    ELSE LET s == MAdd(a, b)
         IN  IF IsU32(s) THEN s
             ELSE IF overflow_checks THEN Panic ELSE Wrap(s)

plain_mul(a, k) ==
    IF IsPanic(a) THEN Panic
    ELSE LET p == MMul(a, k)
         IN  IF IsU32(p) THEN p
             ELSE IF overflow_checks THEN Panic ELSE Wrap(p)

plain_div(a, k) == IF IsPanic(a) THEN Panic ELSE MDiv(a, k)

\* A mutant of align: the offset is returned as it is.
align_no_rounding(offset, width) == offset

\* align: (offset + (width - 1)) / width * width, in plain u32 arithmetic.
align(offset, width) ==
    plain_mul(plain_div(plain_add(offset, FromInt(width - 1)), width), width)


----------------------------------------------------------------------------
(* VMBuiltinFunctionIndex. *)

get_memory32_grow_index == 0
get_imported_memory32_grow_index == 1
get_memory32_size_index == 2
get_imported_memory32_size_index == 3
get_table_copy_index == 4
get_table_init_index == 5
get_elem_drop_index == 6
get_defined_memory_copy_index == 7
get_imported_memory_copy_index == 8
get_memory_fill_index == 9
get_imported_memory_fill_index == 10
get_memory_init_index == 11
get_data_drop_index == 12
builtin_functions_total_number == 13

\* The constructors of VMBuiltinFunctionIndex, in the order of the source.
BuiltinConstructors ==
    << get_memory32_grow_index, get_imported_memory32_grow_index,
       get_memory32_size_index, get_imported_memory32_size_index,
       get_table_copy_index, get_table_init_index, get_elem_drop_index,
       get_defined_memory_copy_index, get_imported_memory_copy_index,
       get_memory_fill_index, get_imported_memory_fill_index,
       get_memory_init_index, get_data_drop_index >>

\* The index values a caller can construct: the field is private, so only
\* the constructors make one.
BuiltinIndexes == {BuiltinConstructors[k] : k \in DOMAIN BuiltinConstructors}

----------------------------------------------------------------------------
(* Record layouts: u8 functions of the pointer size. *)

U8(n) == n % 256

vmfunction_import_body(o) == U8(0 * o.pointer_size)
vmfunction_import_vmctx(o) == U8(1 * o.pointer_size)
size_of_vmfunction_import(o) == U8(2 * o.pointer_size)

size_of_vmfunction_body_ptr(o) == U8(1 * o.pointer_size)

vmtable_import_definition(o) == U8(0 * o.pointer_size)
vmtable_import_from(o) == U8(1 * o.pointer_size)
size_of_vmtable_import(o) == U8(2 * o.pointer_size)

vmtable_definition_base(o) == U8(0 * o.pointer_size)
\* A mutant: the field is placed at the start of the record.
vmtable_definition_current_elements_at_zero(o) == U8(0 * o.pointer_size)
vmtable_definition_current_elements(o) == U8(1 * o.pointer_size)
size_of_vmtable_definition_current_elements(o) == 4
size_of_vmtable_definition(o) == U8(2 * o.pointer_size)

vmmemory_import_definition(o) == U8(0 * o.pointer_size)
vmmemory_import_from(o) == U8(1 * o.pointer_size)
size_of_vmmemory_import(o) == U8(2 * o.pointer_size)

vmmemory_definition_base(o) == U8(0 * o.pointer_size)
vmmemory_definition_current_length(o) == U8(1 * o.pointer_size)
size_of_vmmemory_definition_current_length(o) == 4
size_of_vmmemory_definition(o) == U8(2 * o.pointer_size)

vmglobal_import_definition(o) == U8(0 * o.pointer_size)
size_of_vmglobal_import(o) == U8(1 * o.pointer_size)

size_of_vmglobal_definition(o) == 16

size_of_vmshared_signature_index(o) == 4

vmcaller_checked_anyfunc_func_ptr(o) == U8(0 * o.pointer_size)
vmcaller_checked_anyfunc_type_index(o) == U8(1 * o.pointer_size)
vmcaller_checked_anyfunc_vmctx(o) == U8(2 * o.pointer_size)
size_of_vmcaller_checked_anyfunc(o) == U8(3 * o.pointer_size)

----------------------------------------------------------------------------
(* The regions of the VMContext. *)

vmctx_signature_ids_begin(o) == Zero

vmctx_imported_functions_begin(o) ==
    checked_add(vmctx_signature_ids_begin(o),
                checked_mul(o.num_signature_ids, size_of_vmshared_signature_index(o)))

vmctx_imported_tables_begin(o) ==
    checked_add(vmctx_imported_functions_begin(o),
                checked_mul(o.num_imported_functions, size_of_vmfunction_import(o)))

vmctx_imported_memories_begin(o) ==
    checked_add(vmctx_imported_tables_begin(o),
                checked_mul(o.num_imported_tables, size_of_vmtable_import(o)))

vmctx_imported_globals_begin(o) ==
    checked_add(vmctx_imported_memories_begin(o),
                checked_mul(o.num_imported_memories, size_of_vmmemory_import(o)))

vmctx_tables_begin(o) ==
    checked_add(vmctx_imported_globals_begin(o),
                checked_mul(o.num_imported_globals, size_of_vmglobal_import(o)))

vmctx_memories_begin(o) ==
    checked_add(vmctx_tables_begin(o),
                checked_mul(o.num_defined_tables, size_of_vmtable_definition(o)))

vmctx_globals_begin(o) ==
    LET offset == checked_add(vmctx_memories_begin(o),
                      checked_mul(o.num_defined_memories, size_of_vmmemory_definition(o)))
    IN  align(offset, 16)

vmctx_builtin_functions_begin(o) ==
    checked_add(vmctx_globals_begin(o),
                checked_mul(o.num_defined_globals, size_of_vmglobal_definition(o)))

size_of_vmctx(o) ==
    checked_add(vmctx_builtin_functions_begin(o),
                checked_mul(FromInt(builtin_functions_total_number), o.pointer_size))


----------------------------------------------------------------------------
(* The accessors of the VMContext. *)

\* assert_lt!(left, right): the process fails unless left < right.
assert_lt(left, right) == Lt(left, right)

vmctx_vmshared_signature_id(o, index) ==
    IF ~assert_lt(index, o.num_signature_ids) THEN Panic
    ELSE checked_add(vmctx_signature_ids_begin(o), checked_mul(index, size_of_vmshared_signature_index(o)))

\* A mutant: the range check is left out.
vmctx_vmfunction_import_unchecked(o, index) ==
    checked_add(vmctx_imported_functions_begin(o), checked_mul(index, size_of_vmfunction_import(o)))

vmctx_vmfunction_import(o, index) ==
    IF ~assert_lt(index, o.num_imported_functions) THEN Panic
    ELSE checked_add(vmctx_imported_functions_begin(o), checked_mul(index, size_of_vmfunction_import(o)))

vmctx_vmtable_import(o, index) ==
    IF ~assert_lt(index, o.num_imported_tables) THEN Panic
    ELSE checked_add(vmctx_imported_tables_begin(o), checked_mul(index, size_of_vmtable_import(o)))

vmctx_vmmemory_import(o, index) ==
    IF ~assert_lt(index, o.num_imported_memories) THEN Panic
    ELSE checked_add(vmctx_imported_memories_begin(o), checked_mul(index, size_of_vmmemory_import(o)))

vmctx_vmglobal_import(o, index) ==
    IF ~assert_lt(index, o.num_imported_globals) THEN Panic
    ELSE checked_add(vmctx_imported_globals_begin(o), checked_mul(index, size_of_vmglobal_import(o)))

vmctx_vmtable_definition(o, index) ==
    IF ~assert_lt(index, o.num_defined_tables) THEN Panic
    ELSE checked_add(vmctx_tables_begin(o), checked_mul(index, size_of_vmtable_definition(o)))

vmctx_vmmemory_definition(o, index) ==
    IF ~assert_lt(index, o.num_defined_memories) THEN Panic
    ELSE checked_add(vmctx_memories_begin(o), checked_mul(index, size_of_vmmemory_definition(o)))

vmctx_vmglobal_definition(o, index) ==
    IF ~assert_lt(index, o.num_defined_globals) THEN Panic
    ELSE checked_add(vmctx_globals_begin(o), checked_mul(index, size_of_vmglobal_definition(o)))

vmctx_vmfunction_import_body(o, index) ==
    checked_add(vmctx_vmfunction_import(o, index), FromInt(vmfunction_import_body(o)))

vmctx_vmfunction_import_vmctx(o, index) ==
    checked_add(vmctx_vmfunction_import(o, index), FromInt(vmfunction_import_vmctx(o)))

vmctx_vmtable_import_definition(o, index) ==
    checked_add(vmctx_vmtable_import(o, index), FromInt(vmtable_import_definition(o)))

vmctx_vmtable_definition_base(o, index) ==
    checked_add(vmctx_vmtable_definition(o, index), FromInt(vmtable_definition_base(o)))

vmctx_vmtable_definition_current_elements(o, index) ==
    checked_add(vmctx_vmtable_definition(o, index), FromInt(vmtable_definition_current_elements(o)))

vmctx_vmmemory_import_definition(o, index) ==
    checked_add(vmctx_vmmemory_import(o, index), FromInt(vmmemory_import_definition(o)))

vmctx_vmmemory_import_from(o, index) ==
    checked_add(vmctx_vmmemory_import(o, index), FromInt(vmmemory_import_from(o)))

vmctx_vmmemory_definition_base(o, index) ==
    checked_add(vmctx_vmmemory_definition(o, index), FromInt(vmmemory_definition_base(o)))

vmctx_vmmemory_definition_current_length(o, index) ==
    checked_add(vmctx_vmmemory_definition(o, index), FromInt(vmmemory_definition_current_length(o)))

vmctx_vmglobal_import_definition(o, index) ==
    checked_add(vmctx_vmglobal_import(o, index), FromInt(vmglobal_import_definition(o)))

\* A mutant: the builtin functions are addressed from the globals region.
vmctx_builtin_function_from_globals(o, index) ==
    checked_add(vmctx_globals_begin(o), checked_mul(FromInt(index), o.pointer_size))

vmctx_builtin_function(o, index) ==
    checked_add(vmctx_builtin_functions_begin(o),
                checked_mul(FromInt(index), o.pointer_size))


----------------------------------------------------------------------------
(* The inputs of the VMOffsets functions.                                  *)
(*                                                                         *)
(* A VMOffsets has public fields, so any pointer size and any counts can   *)
(* be given.  The counts are small numbers that add up to at most          *)
(* MaxTotal, and at most one of them is replaced by a count next to 2^30,  *)
(* where the sizes of the regions reach 2^32.                              *)

PointerSizes == {4, 8}

CountFields ==
    { "num_signature_ids", "num_imported_functions", "num_imported_tables",
      "num_imported_memories", "num_imported_globals", "num_defined_tables",
      "num_defined_memories", "num_defined_globals" }

\* 0x3FFF_FFFF and 0x4000_0000.
BigCounts == { U32(16383, 65535), U32(16384, 0) }

\* 0x3FFF_FFFE, 0x3FFF_FFFF and 0x4000_0000.
BigIndexes == { U32(16383, 65534), U32(16383, 65535), U32(16384, 0) }

SmallCounts ==
    { c \in [CountFields -> 0..MaxTotal] :
        c["num_signature_ids"] + c["num_imported_functions"]
          + c["num_imported_tables"] + c["num_imported_memories"]
          + c["num_imported_globals"] + c["num_defined_tables"]
          + c["num_defined_memories"] + c["num_defined_globals"] <= MaxTotal }

BigChoices == { <<"none", Zero>> } \cup (CountFields \X BigCounts)

MkOffsets(p, c, big) ==
    LET n(f) == IF big[1] = f THEN big[2] ELSE FromInt(c[f])
    IN  [ pointer_size           |-> p,
          num_signature_ids      |-> n("num_signature_ids"),
          num_imported_functions |-> n("num_imported_functions"),
          num_imported_tables    |-> n("num_imported_tables"),
          num_imported_memories  |-> n("num_imported_memories"),
          num_imported_globals   |-> n("num_imported_globals"),
          num_defined_tables     |-> n("num_defined_tables"),
          num_defined_memories   |-> n("num_defined_memories"),
          num_defined_globals    |-> n("num_defined_globals") ]

\* The VMOffsets of the layout scenario: pointer_size = 8, two signature
\* ids, one imported function, nothing else.
Scenario6Offsets ==
    [ MkOffsets(8, [f \in CountFields |-> 0], <<"none", Zero>>)
      EXCEPT !.num_signature_ids = FromInt(2),
             !.num_imported_functions = FromInt(1) ]

\* The indices an accessor is called with: every index in range and the
\* first ones out of range; next to a big count, 0 and the indices around it.
Indexes(count) ==
    IF count \in BigCounts
    THEN {Zero} \cup BigIndexes
    ELSE { FromInt(i) : i \in 0..(count.lo + IndexSlack) }

NoCall == [fn |-> "new", index |-> Zero, value |-> Zero]

\* The functions take &self and change nothing, so the outcome of a call
\* does not depend on earlier calls: each behaviour makes one call.
Call(fn, index, value) ==
    /\ ret' = [fn |-> fn, index |-> index, value |-> value]
    /\ UNCHANGED <<overflow_checks, offsets, nonVmVars>>

\* The function of VMOffsets a name stands for.
BeginValue(o, fn) ==
    CASE fn = "vmctx_signature_ids_begin" -> vmctx_signature_ids_begin(o)
      [] fn = "vmctx_imported_functions_begin" -> vmctx_imported_functions_begin(o)
      [] fn = "vmctx_imported_tables_begin" -> vmctx_imported_tables_begin(o)
      [] fn = "vmctx_imported_memories_begin" -> vmctx_imported_memories_begin(o)
      [] fn = "vmctx_imported_globals_begin" -> vmctx_imported_globals_begin(o)
      [] fn = "vmctx_tables_begin" -> vmctx_tables_begin(o)
      [] fn = "vmctx_memories_begin" -> vmctx_memories_begin(o)
      [] fn = "vmctx_globals_begin" -> vmctx_globals_begin(o)
      [] fn = "vmctx_builtin_functions_begin" -> vmctx_builtin_functions_begin(o)
      [] fn = "size_of_vmctx" -> size_of_vmctx(o)

AccessorValue(o, fn, index) ==
    CASE fn = "vmctx_vmshared_signature_id" -> vmctx_vmshared_signature_id(o, index)
      [] fn = "vmctx_vmfunction_import" -> vmctx_vmfunction_import(o, index)
      [] fn = "vmctx_vmfunction_import_body" -> vmctx_vmfunction_import_body(o, index)
      [] fn = "vmctx_vmfunction_import_vmctx" -> vmctx_vmfunction_import_vmctx(o, index)
      [] fn = "vmctx_vmtable_import" -> vmctx_vmtable_import(o, index)
      [] fn = "vmctx_vmtable_import_definition" -> vmctx_vmtable_import_definition(o, index)
      [] fn = "vmctx_vmmemory_import" -> vmctx_vmmemory_import(o, index)
      [] fn = "vmctx_vmmemory_import_definition" -> vmctx_vmmemory_import_definition(o, index)
      [] fn = "vmctx_vmmemory_import_from" -> vmctx_vmmemory_import_from(o, index)
      [] fn = "vmctx_vmglobal_import" -> vmctx_vmglobal_import(o, index)
      [] fn = "vmctx_vmglobal_import_definition" -> vmctx_vmglobal_import_definition(o, index)
      [] fn = "vmctx_vmtable_definition" -> vmctx_vmtable_definition(o, index)
      [] fn = "vmctx_vmtable_definition_base" -> vmctx_vmtable_definition_base(o, index)
      [] fn = "vmctx_vmtable_definition_current_elements" -> vmctx_vmtable_definition_current_elements(o, index)
      [] fn = "vmctx_vmmemory_definition" -> vmctx_vmmemory_definition(o, index)
      [] fn = "vmctx_vmmemory_definition_base" -> vmctx_vmmemory_definition_base(o, index)
      [] fn = "vmctx_vmmemory_definition_current_length" -> vmctx_vmmemory_definition_current_length(o, index)
      [] fn = "vmctx_vmglobal_definition" -> vmctx_vmglobal_definition(o, index)

LayoutValue(o, fn) ==
    CASE fn = "vmfunction_import_body" -> vmfunction_import_body(o)
      [] fn = "vmfunction_import_vmctx" -> vmfunction_import_vmctx(o)
      [] fn = "size_of_vmfunction_import" -> size_of_vmfunction_import(o)
      [] fn = "size_of_vmfunction_body_ptr" -> size_of_vmfunction_body_ptr(o)
      [] fn = "vmtable_import_definition" -> vmtable_import_definition(o)
      [] fn = "vmtable_import_from" -> vmtable_import_from(o)
      [] fn = "size_of_vmtable_import" -> size_of_vmtable_import(o)
      [] fn = "vmtable_definition_base" -> vmtable_definition_base(o)
      [] fn = "vmtable_definition_current_elements" -> vmtable_definition_current_elements(o)
      [] fn = "size_of_vmtable_definition_current_elements" -> size_of_vmtable_definition_current_elements(o)
      [] fn = "size_of_vmtable_definition" -> size_of_vmtable_definition(o)
      [] fn = "vmmemory_import_definition" -> vmmemory_import_definition(o)
      [] fn = "vmmemory_import_from" -> vmmemory_import_from(o)
      [] fn = "size_of_vmmemory_import" -> size_of_vmmemory_import(o)
      [] fn = "vmmemory_definition_base" -> vmmemory_definition_base(o)
      [] fn = "vmmemory_definition_current_length" -> vmmemory_definition_current_length(o)
      [] fn = "size_of_vmmemory_definition_current_length" -> size_of_vmmemory_definition_current_length(o)
      [] fn = "size_of_vmmemory_definition" -> size_of_vmmemory_definition(o)
      [] fn = "vmglobal_import_definition" -> vmglobal_import_definition(o)
      [] fn = "size_of_vmglobal_import" -> size_of_vmglobal_import(o)
      [] fn = "size_of_vmglobal_definition" -> size_of_vmglobal_definition(o)
      [] fn = "size_of_vmshared_signature_index" -> size_of_vmshared_signature_index(o)
      [] fn = "vmcaller_checked_anyfunc_func_ptr" -> vmcaller_checked_anyfunc_func_ptr(o)
      [] fn = "vmcaller_checked_anyfunc_type_index" -> vmcaller_checked_anyfunc_type_index(o)
      [] fn = "vmcaller_checked_anyfunc_vmctx" -> vmcaller_checked_anyfunc_vmctx(o)
      [] fn = "size_of_vmcaller_checked_anyfunc" -> size_of_vmcaller_checked_anyfunc(o)

\* A region function is called: one action for each.
Call_vmctx_signature_ids_begin ==
    /\ ret = NoCall
    /\ Call("vmctx_signature_ids_begin", Zero, BeginValue(offsets, "vmctx_signature_ids_begin"))

Call_vmctx_imported_functions_begin ==
    /\ ret = NoCall
    /\ Call("vmctx_imported_functions_begin", Zero, BeginValue(offsets, "vmctx_imported_functions_begin"))

Call_vmctx_imported_tables_begin ==
    /\ ret = NoCall
    /\ Call("vmctx_imported_tables_begin", Zero, BeginValue(offsets, "vmctx_imported_tables_begin"))

Call_vmctx_imported_memories_begin ==
    /\ ret = NoCall
    /\ Call("vmctx_imported_memories_begin", Zero, BeginValue(offsets, "vmctx_imported_memories_begin"))

Call_vmctx_imported_globals_begin ==
    /\ ret = NoCall
    /\ Call("vmctx_imported_globals_begin", Zero, BeginValue(offsets, "vmctx_imported_globals_begin"))

Call_vmctx_tables_begin ==
    /\ ret = NoCall
    /\ Call("vmctx_tables_begin", Zero, BeginValue(offsets, "vmctx_tables_begin"))

Call_vmctx_memories_begin ==
    /\ ret = NoCall
    /\ Call("vmctx_memories_begin", Zero, BeginValue(offsets, "vmctx_memories_begin"))

Call_vmctx_globals_begin ==
    /\ ret = NoCall
    /\ Call("vmctx_globals_begin", Zero, BeginValue(offsets, "vmctx_globals_begin"))

Call_vmctx_builtin_functions_begin ==
    /\ ret = NoCall
    /\ Call("vmctx_builtin_functions_begin", Zero, BeginValue(offsets, "vmctx_builtin_functions_begin"))

Call_size_of_vmctx ==
    /\ ret = NoCall
    /\ Call("size_of_vmctx", Zero, BeginValue(offsets, "size_of_vmctx"))

\* A record accessor, or one of the field-level accessors that delegate
\* to it, is called with an index.
Call_vmctx_vmshared_signature_id ==
    /\ ret = NoCall
    /\ \E index \in Indexes(offsets.num_signature_ids),
          fn \in { "vmctx_vmshared_signature_id" } :
           Call(fn, index, AccessorValue(offsets, fn, index))

Call_vmctx_vmfunction_import ==
    /\ ret = NoCall
    /\ \E index \in Indexes(offsets.num_imported_functions),
          fn \in { "vmctx_vmfunction_import", "vmctx_vmfunction_import_body", "vmctx_vmfunction_import_vmctx" } :
           Call(fn, index, AccessorValue(offsets, fn, index))

Call_vmctx_vmtable_import ==
    /\ ret = NoCall
    /\ \E index \in Indexes(offsets.num_imported_tables),
          fn \in { "vmctx_vmtable_import", "vmctx_vmtable_import_definition" } :
           Call(fn, index, AccessorValue(offsets, fn, index))

Call_vmctx_vmmemory_import ==
    /\ ret = NoCall
    /\ \E index \in Indexes(offsets.num_imported_memories),
          fn \in { "vmctx_vmmemory_import", "vmctx_vmmemory_import_definition", "vmctx_vmmemory_import_from" } :
           Call(fn, index, AccessorValue(offsets, fn, index))

Call_vmctx_vmglobal_import ==
    /\ ret = NoCall
    /\ \E index \in Indexes(offsets.num_imported_globals),
          fn \in { "vmctx_vmglobal_import", "vmctx_vmglobal_import_definition" } :
           Call(fn, index, AccessorValue(offsets, fn, index))

Call_vmctx_vmtable_definition ==
    /\ ret = NoCall
    /\ \E index \in Indexes(offsets.num_defined_tables),
          fn \in { "vmctx_vmtable_definition", "vmctx_vmtable_definition_base", "vmctx_vmtable_definition_current_elements" } :
           Call(fn, index, AccessorValue(offsets, fn, index))

Call_vmctx_vmmemory_definition ==
    /\ ret = NoCall
    /\ \E index \in Indexes(offsets.num_defined_memories),
          fn \in { "vmctx_vmmemory_definition", "vmctx_vmmemory_definition_base", "vmctx_vmmemory_definition_current_length" } :
           Call(fn, index, AccessorValue(offsets, fn, index))

Call_vmctx_vmglobal_definition ==
    /\ ret = NoCall
    /\ \E index \in Indexes(offsets.num_defined_globals),
          fn \in { "vmctx_vmglobal_definition" } :
           Call(fn, index, AccessorValue(offsets, fn, index))

Call_vmctx_builtin_function ==
    /\ ret = NoCall
    /\ \E index \in BuiltinIndexes :
           Call("vmctx_builtin_function", FromInt(index),
                vmctx_builtin_function(offsets, index))

\* A record-layout function is called: one action for each record.
Call_VMFunctionImport ==
    /\ ret = NoCall
    /\ \E fn \in { "vmfunction_import_body", "vmfunction_import_vmctx", "size_of_vmfunction_import" } :
           Call(fn, Zero, FromInt(LayoutValue(offsets, fn)))

Call_VMFunctionBody_ptr ==
    /\ ret = NoCall
    /\ \E fn \in { "size_of_vmfunction_body_ptr" } :
           Call(fn, Zero, FromInt(LayoutValue(offsets, fn)))

Call_VMTableImport ==
    /\ ret = NoCall
    /\ \E fn \in { "vmtable_import_definition", "vmtable_import_from", "size_of_vmtable_import" } :
           Call(fn, Zero, FromInt(LayoutValue(offsets, fn)))

Call_VMTableDefinition ==
    /\ ret = NoCall
    /\ \E fn \in { "vmtable_definition_base", "vmtable_definition_current_elements", "size_of_vmtable_definition_current_elements", "size_of_vmtable_definition" } :
           Call(fn, Zero, FromInt(LayoutValue(offsets, fn)))

Call_VMMemoryImport ==
    /\ ret = NoCall
    /\ \E fn \in { "vmmemory_import_definition", "vmmemory_import_from", "size_of_vmmemory_import" } :
           Call(fn, Zero, FromInt(LayoutValue(offsets, fn)))

Call_VMMemoryDefinition ==
    /\ ret = NoCall
    /\ \E fn \in { "vmmemory_definition_base", "vmmemory_definition_current_length", "size_of_vmmemory_definition_current_length", "size_of_vmmemory_definition" } :
           Call(fn, Zero, FromInt(LayoutValue(offsets, fn)))

Call_VMGlobalImport ==
    /\ ret = NoCall
    /\ \E fn \in { "vmglobal_import_definition", "size_of_vmglobal_import" } :
           Call(fn, Zero, FromInt(LayoutValue(offsets, fn)))

Call_VMGlobalDefinition ==
    /\ ret = NoCall
    /\ \E fn \in { "size_of_vmglobal_definition" } :
           Call(fn, Zero, FromInt(LayoutValue(offsets, fn)))

Call_VMSharedSignatureIndex ==
    /\ ret = NoCall
    /\ \E fn \in { "size_of_vmshared_signature_index" } :
           Call(fn, Zero, FromInt(LayoutValue(offsets, fn)))

Call_VMCallerCheckedAnyfunc ==
    /\ ret = NoCall
    /\ \E fn \in { "vmcaller_checked_anyfunc_func_ptr", "vmcaller_checked_anyfunc_type_index", "vmcaller_checked_anyfunc_vmctx", "size_of_vmcaller_checked_anyfunc" } :
           Call(fn, Zero, FromInt(LayoutValue(offsets, fn)))

NextVM ==
    \/ Call_vmctx_signature_ids_begin
    \/ Call_vmctx_imported_functions_begin
    \/ Call_vmctx_imported_tables_begin
    \/ Call_vmctx_imported_memories_begin
    \/ Call_vmctx_imported_globals_begin
    \/ Call_vmctx_tables_begin
    \/ Call_vmctx_memories_begin
    \/ Call_vmctx_globals_begin
    \/ Call_vmctx_builtin_functions_begin
    \/ Call_size_of_vmctx
    \/ Call_vmctx_vmshared_signature_id
    \/ Call_vmctx_vmfunction_import
    \/ Call_vmctx_vmtable_import
    \/ Call_vmctx_vmmemory_import
    \/ Call_vmctx_vmglobal_import
    \/ Call_vmctx_vmtable_definition
    \/ Call_vmctx_vmmemory_definition
    \/ Call_vmctx_vmglobal_definition
    \/ Call_vmctx_builtin_function

NextLayout ==
    \/ Call_VMFunctionImport
    \/ Call_VMFunctionBody_ptr
    \/ Call_VMTableImport
    \/ Call_VMTableDefinition
    \/ Call_VMMemoryImport
    \/ Call_VMMemoryDefinition
    \/ Call_VMGlobalImport
    \/ Call_VMGlobalDefinition
    \/ Call_VMSharedSignatureIndex
    \/ Call_VMCallerCheckedAnyfunc


----------------------------------------------------------------------------
(* ModuleEnvironment: the declare_* operations of the translator.          *)
(*                                                                         *)
(* translate_module calls them while it decodes the sections; an Err is    *)
(* passed on by `?` and a panic ends the process, so operations run only   *)
(* while status = "ok".                                                    *)

\* Option<T>: None is the empty sequence, Some(x) the sequence of x alone.
None == << >>

Some(x) == <<x>>

SignatureIndexes == {0, 1}

TableTypes == { [ty |-> "FuncRef"] }

MemoryTypes == { [shared |-> FALSE], [shared |-> TRUE] }

GlobalTypes == { [ty |-> "I32", mutability |-> "Const"] }

ModuleNames == {"env"}

FieldNames == {"f"}

\* The function indices declare_start_func is called with.
StartIndexes == {0, 1}

\* The function types declare_signature is called with, and the function
\* indices and names declare_func_name is called with.
FuncTypes ==
    { [params |-> << >>, results |-> << >>],
      [params |-> <<"I32">>, results |-> <<"I32">>] }

FuncIndexes == {0, 1}

FuncNames == {"a", "b"}

\* TablePlan::for_table and MemoryPlan::for_memory keep the declared type.
TablePlan_for_table(table) == [table |-> table]

MemoryPlan_for_memory(memory) == [memory |-> memory]

\* The element and data indices, and the segments, of the passive
\* declarations.
ElemIndexes == {0, 1}

DataIndexes == {0, 1}

ElemSegments == { <<0>>, <<1>>, <<0, 1>> }

DataSegments == { <<7>>, <<8>>, <<7, 8>> }

\* HashMap::new and HashMap::insert: the map has one value for a key, and
\* an insert under an existing key replaces the value.
HashMap_new == [k \in {} |-> None]

HashMap_insert(map, key, value) ==
    [k \in DOMAIN map \cup {key} |-> IF k = key THEN value ELSE map[k]]

\* Module::new(): every collection empty, every counter 0, no start function.
\* declared_by is a history of the module: for each index space, which
\* kind of declaration pushed each entry; the function types
\* declare_signature was called with, in the order of the calls; and the
\* arguments of the last call of declare_func_name.
Module_new ==
    [ signatures            |-> << >>,
      func_names            |-> HashMap_new,
      functions             |-> << >>,
      table_plans           |-> << >>,
      memory_plans          |-> << >>,
      globals               |-> << >>,
      num_imported_funcs    |-> 0,
      num_imported_tables   |-> 0,
      num_imported_memories |-> 0,
      num_imported_globals  |-> 0,
      imports               |-> << >>,
      start_func            |-> None,
      passive_elements      |-> HashMap_new,
      passive_data          |-> HashMap_new,
      declared_by           |-> [ functions    |-> << >>,
                                  table_plans  |-> << >>,
                                  memory_plans |-> << >>,
                                  globals      |-> << >>,
                                  signatures   |-> << >>,
                                  func_names   |-> None ] ]

\* IndexMap::insert: the value of an existing key is replaced in place, a
\* new key is appended.
IndexMap_insert(map, key, value) ==
    IF \E i \in DOMAIN map : map[i].key = key
    THEN [ i \in DOMAIN map |->
             IF map[i].key = key THEN [key |-> key, value |-> value] ELSE map[i] ]
    ELSE Append(map, [key |-> key, value |-> value])

\* The number of entities the module holds, which the model bounds.
NumEntities(m) ==
    Len(m.functions) + Len(m.table_plans) + Len(m.memory_plans) + Len(m.globals)
        + Len(m.declared_by.signatures)

\* A mutant of declare_import: the import is stored under its names alone.
declare_import_by_name(m, import, mod, field) ==
    [m EXCEPT !.imports = IndexMap_insert(@, <<mod, field, 0>>, import)]

\* declare_import: the import is stored under (module, field, self.imports).
declare_import(m, import, mod, field) ==
    [m EXCEPT !.imports = IndexMap_insert(@, <<mod, field, imports>>, import)]

\* A panic: the process ends and nothing is changed.
Fail(how) ==
    /\ status' = how
    /\ UNCHANGED <<debug_assertions, module, imports, nonEnvVars>>

\* A mutant of declare_signature: a function type that is already stored
\* is not stored again.
declare_signature_deduplicated(sig) ==
    /\ status = "ok"
    /\ NumEntities(module) < MaxEntities
    /\ module' =
         [ module EXCEPT
             !.signatures =
                 IF \E i \in DOMAIN @ : @[i] = sig THEN @ ELSE Append(@, sig),
             !.declared_by.signatures = Append(@, sig) ]
    /\ UNCHANGED <<debug_assertions, imports, status, nonEnvVars>>

declare_signature(sig) ==
    /\ status = "ok"
    /\ NumEntities(module) < MaxEntities
    /\ module' = [ module EXCEPT !.signatures = Append(@, sig),
                                 !.declared_by.signatures = Append(@, sig) ]
    /\ UNCHANGED <<debug_assertions, imports, status, nonEnvVars>>

declare_func_import(sig_index, mod, field) ==
    /\ status = "ok"
    /\ NumEntities(module) < MaxEntities
    /\ IF debug_assertions /\ Len(module.functions) # module.num_imported_funcs
       THEN Fail("panic")
       ELSE /\ module' =
                 [ declare_import(module,
                       [kind |-> "Function", index |-> module.num_imported_funcs],
                       mod, field)
                   EXCEPT !.functions = Append(@, sig_index),
                          !.num_imported_funcs = @ + 1,
                          !.declared_by.functions = Append(@, "import") ]
            /\ imports' = imports + 1
            /\ UNCHANGED <<debug_assertions, status, nonEnvVars>>

declare_table_import(table, mod, field) ==
    /\ status = "ok"
    /\ NumEntities(module) < MaxEntities
    /\ IF debug_assertions /\ Len(module.table_plans) # module.num_imported_tables
       THEN Fail("panic")
       ELSE /\ module' =
                 [ declare_import(module,
                       [kind |-> "Table", index |-> module.num_imported_tables],
                       mod, field)
                   EXCEPT !.table_plans = Append(@, TablePlan_for_table(table)),
                          !.num_imported_tables = @ + 1,
                          !.declared_by.table_plans = Append(@, "import") ]
            /\ imports' = imports + 1
            /\ UNCHANGED <<debug_assertions, status, nonEnvVars>>

declare_memory_import(memory, mod, field) ==
    /\ status = "ok"
    /\ NumEntities(module) < MaxEntities
    /\ IF debug_assertions /\ Len(module.memory_plans) # module.num_imported_memories
       THEN Fail("panic")
       ELSE /\ module' =
                 [ declare_import(module,
                       [kind |-> "Memory", index |-> module.num_imported_memories],
                       mod, field)
                   EXCEPT !.memory_plans = Append(@, MemoryPlan_for_memory(memory)),
                          !.num_imported_memories = @ + 1,
                          !.declared_by.memory_plans = Append(@, "import") ]
            /\ imports' = imports + 1
            /\ UNCHANGED <<debug_assertions, status, nonEnvVars>>

declare_global_import(global, mod, field) ==
    /\ status = "ok"
    /\ NumEntities(module) < MaxEntities
    /\ IF debug_assertions /\ Len(module.globals) # module.num_imported_globals
       THEN Fail("panic")
       ELSE /\ module' =
                 [ declare_import(module,
                       [kind |-> "Global", index |-> module.num_imported_globals],
                       mod, field)
                   EXCEPT !.globals = Append(@, global),
                          !.num_imported_globals = @ + 1,
                          !.declared_by.globals = Append(@, "import") ]
            /\ imports' = imports + 1
            /\ UNCHANGED <<debug_assertions, status, nonEnvVars>>

declare_func_type(sig_index) ==
    /\ status = "ok"
    /\ NumEntities(module) < MaxEntities
    /\ module' = [ module EXCEPT !.functions = Append(@, sig_index),
                                 !.declared_by.functions = Append(@, "local") ]
    /\ UNCHANGED <<debug_assertions, imports, status, nonEnvVars>>

declare_table(table) ==
    /\ status = "ok"
    /\ NumEntities(module) < MaxEntities
    /\ module' = [ module EXCEPT !.table_plans = Append(@, TablePlan_for_table(table)),
                                 !.declared_by.table_plans = Append(@, "local") ]
    /\ UNCHANGED <<debug_assertions, imports, status, nonEnvVars>>

\* A mutant of declare_memory: the plan is pushed before the check.
declare_memory_pushes_first(memory) ==
    /\ status = "ok"
    /\ NumEntities(module) < MaxEntities
    /\ module' =
         [ module EXCEPT !.memory_plans = Append(@, MemoryPlan_for_memory(memory)),
                         !.declared_by.memory_plans = Append(@, "local") ]
    /\ status' = IF memory.shared
                 THEN "Unsupported: shared memories are not supported yet"
                 ELSE status
    /\ UNCHANGED <<debug_assertions, imports, nonEnvVars>>

declare_memory(memory) ==
    /\ status = "ok"
    /\ NumEntities(module) < MaxEntities
    /\ IF memory.shared
       THEN Fail("Unsupported: shared memories are not supported yet")
       ELSE /\ module' =
                 [ module EXCEPT !.memory_plans = Append(@, MemoryPlan_for_memory(memory)),
                                 !.declared_by.memory_plans = Append(@, "local") ]
            /\ UNCHANGED <<debug_assertions, imports, status, nonEnvVars>>

declare_global(global) ==
    /\ status = "ok"
    /\ NumEntities(module) < MaxEntities
    /\ module' = [ module EXCEPT !.globals = Append(@, global),
                                 !.declared_by.globals = Append(@, "local") ]
    /\ UNCHANGED <<debug_assertions, imports, status, nonEnvVars>>

declare_start_func(func_index) ==
    /\ status = "ok"
    /\ IF debug_assertions /\ module.start_func # None
       THEN Fail("panic")
       ELSE /\ module' = [module EXCEPT !.start_func = Some(func_index)]
            /\ UNCHANGED <<debug_assertions, imports, status, nonEnvVars>>

\* declare_passive_element, declare_passive_data: the segment is inserted
\* first, and the debug assertion on the value it replaced comes after.
declare_passive_element(elem_index, segments) ==
    /\ status = "ok"
    /\ LET old == IF elem_index \in DOMAIN module.passive_elements
                  THEN Some(module.passive_elements[elem_index]) ELSE None
       IN  /\ module' = [module EXCEPT !.passive_elements =
                                HashMap_insert(@, elem_index, segments)]
           /\ status' = IF debug_assertions /\ old # None THEN "panic" ELSE status
    /\ UNCHANGED <<debug_assertions, imports, nonEnvVars>>

declare_passive_data(data_index, data) ==
    /\ status = "ok"
    /\ LET old == IF data_index \in DOMAIN module.passive_data
                  THEN Some(module.passive_data[data_index]) ELSE None
       IN  /\ module' = [module EXCEPT !.passive_data =
                                HashMap_insert(@, data_index, data)]
           /\ status' = IF debug_assertions /\ old # None THEN "panic" ELSE status
    /\ UNCHANGED <<debug_assertions, imports, nonEnvVars>>

\* A mutant of declare_func_name: the first name of a function is kept.
declare_func_name_keeps_first(func_index, name) ==
    /\ status = "ok"
    /\ module' =
         [ module EXCEPT
             !.func_names =
                 IF func_index \in DOMAIN @ THEN @
                 ELSE HashMap_insert(@, func_index, name),
             !.declared_by.func_names =
                 Some([func_index |-> func_index, name |-> name]) ]
    /\ UNCHANGED <<debug_assertions, imports, status, nonEnvVars>>

declare_func_name(func_index, name) ==
    /\ status = "ok"
    /\ module' =
         [ module EXCEPT
             !.func_names = HashMap_insert(@, func_index, name),
             !.declared_by.func_names =
                 Some([func_index |-> func_index, name |-> name]) ]
    /\ UNCHANGED <<debug_assertions, imports, status, nonEnvVars>>

NextEnv ==
    \/ \E sig_index \in SignatureIndexes, mod \in ModuleNames, field \in FieldNames :
          declare_func_import(sig_index, mod, field)
    \/ \E table \in TableTypes, mod \in ModuleNames, field \in FieldNames :
          declare_table_import(table, mod, field)
    \/ \E memory \in MemoryTypes, mod \in ModuleNames, field \in FieldNames :
          declare_memory_import(memory, mod, field)
    \/ \E global \in GlobalTypes, mod \in ModuleNames, field \in FieldNames :
          declare_global_import(global, mod, field)
    \/ \E sig_index \in SignatureIndexes : declare_func_type(sig_index)
    \/ \E table \in TableTypes : declare_table(table)
    \/ \E memory \in MemoryTypes : declare_memory(memory)
    \/ \E global \in GlobalTypes : declare_global(global)
    \/ \E func_index \in StartIndexes : declare_start_func(func_index)

----------------------------------------------------------------------------
(* Tunables (lib/compiler/src/tunables.rs).  A target triple is kept as    *)
(* its architecture and operating system, the two parts for_target reads.  *)
(* The u64 guard sizes are kept as limbs, like the u32 offsets.            *)

Architectures ==
    { "Unknown", "Msp430", "Avr", "Arm", "I386", "Wasm32", "Riscv32",
      "Aarch64", "X86_64", "Riscv64" }

OperatingSystems ==
    { "Unknown", "Linux", "Darwin", "Freebsd", "Ios", "Windows" }

Triples ==
    [ architecture : Architectures, operating_system : OperatingSystems ]

HOST == [ architecture |-> "X86_64", operating_system |-> "Linux" ]

\* Triple::pointer_width: Err for an unknown architecture, else the width
\* of the architecture's pointers.
Triple_pointer_width(t) ==
    CASE t.architecture \in { "Msp430", "Avr" } -> Some("U16")
      [] t.architecture \in { "Arm", "I386", "Wasm32", "Riscv32" } -> Some("U32")
      [] t.architecture \in { "Aarch64", "X86_64", "Riscv64" } -> Some("U64")
      [] OTHER -> None

\* std::cmp::min on u32 and on u64.
min(a, b) == IF a <= b THEN a ELSE b

\* A mutant of the Windows arm of for_target: the guard is not clamped.
min_u64_left(a, b) == a

min_u64(a, b) == IF Le(a, b) THEN a ELSE b

\* The body of for_target once the pointer width is known.
Tunables_for_pointer_width(pointer_width, operating_system) ==
    LET sized ==
            CASE pointer_width = "U16" -> <<4 * 256, FromInt(16 * 256)>>
              [] pointer_width = "U32" -> <<64 * 256, U32(1, 0)>>
              [] pointer_width = "U64" -> <<256 * 256, U32(128 * 256, 0)>>
        dynamic_memory_offset_guard_size == U32(1, 0)
        windows == operating_system = "Windows"
    IN  [ static_memory_bound |->
              IF windows THEN min(sized[1], 256) ELSE sized[1],
          static_memory_offset_guard_size |->
              IF windows THEN min_u64(sized[2], U32(1, 0)) ELSE sized[2],
          dynamic_memory_offset_guard_size |->
              dynamic_memory_offset_guard_size ]

\* Tunables::for_target: the unwrap of the pointer width panics for a
\* target that has none.
for_target ==
    /\ status = "ok"
    /\ tunables = None
    /\ LET pointer_width == Triple_pointer_width(triple)
       IN  IF pointer_width = None
           THEN /\ status' = "panic"
                /\ UNCHANGED tunables
           ELSE /\ tunables' = Some(Tunables_for_pointer_width(
                                        pointer_width[1], triple.operating_system))
                /\ UNCHANGED status
    /\ UNCHANGED <<triple, nonTunVars>>

NextTunables == for_target

----------------------------------------------------------------------------
(* Artifact::instantiate and finish_instantiation                          *)
(* (lib/engine/src/artifact.rs).  One action is one call instantiate       *)
(* makes; a call that fails ends the function through its ? operator,      *)
(* which drops the local values in scope.                                  *)

ImportNames == {"f", "g"}

Traps == {"Unreachable", "HeapAccessOutOfBounds"}

\* The data initializers an artifact holds: the location (memory index,
\* base global, offset) and the bytes.
OwnedDataInitializers ==
    { [ location |-> [memory_index |-> 0, base |-> << >>, offset |-> 0],
        data |-> <<7>> ],
      [ location |-> [memory_index |-> 0, base |-> <<0>>, offset |-> 4],
        data |-> <<8, 9>> ] }

DataInitializerLists ==
    UNION { [1..n -> OwnedDataInitializers] : n \in 0..2 }

Ok(v) == [ok |-> TRUE, value |-> v]

Err(e) == [ok |-> FALSE, error |-> e]

\* The two variants of InstantiationError the function builds.
InstantiationError_Start(e) == [variant |-> "Start", error |-> e]

InstantiationError_Link(e) == [variant |-> "Link", error |-> e]

\* RuntimeError::from_trap keeps the trap.
RuntimeError_from_trap(trap) == [kind |-> "Trap", trap |-> trap]

\* The errors a failing preinstantiate of an engine may return.
PreinstantiateErrors ==
    { InstantiationError_Link([kind |-> "Resource", what |-> "preinstantiate"]) }

\* The LinkError a failing create_* of the tunables returns.
ResourceError(what) == [kind |-> "Resource", what |-> what]

\* resolve_imports: every import the module declares must be supplied by
\* the resolver; the first one missing is the error.
resolve_imports_of(m, r) ==
    IF m \subseteq r
    THEN Ok(m)
    ELSE Err([kind |-> "Import", what |-> IF "f" \in m \ r THEN "f" ELSE "g"])

\* The local values of instantiate before any is bound.
NoLocals ==
    [ imports           |-> None,
      finished_memories |-> None,
      finished_tables   |-> None,
      finished_globals  |-> None ]

\* The resources the local values own.
Owned(l) == { <<calls, n>> : n \in { f \in DOMAIN l : l[f] # None } }

\* A mutant of Dropped: leaving the scope releases nothing.
Leaked(l) == {}

\* The resources released when the local values go out of scope.
Dropped(l) == Owned(l)

\* The resources InstanceHandle::new releases when it traps: the values
\* moved into it.
DroppedByCallee(l) == Owned(l)

\* A step is recorded in the history of the call.
Traced(step, ok) == Append(trace, [step |-> step, ok |-> ok])

\* The function returns res: its local values go out of scope.
Return(step, res) ==
    /\ pc' = "returned"
    /\ result' = Some(res)
    /\ live' = live \ Dropped(locals)
    /\ locals' = NoLocals
    /\ trace' = Traced(step, FALSE)

\* The step succeeded and bound a local value; the next step is next.
Bind(step, field, next) ==
    /\ pc' = next
    /\ locals' = [locals EXCEPT ![field] = Some(<<calls, field>>)]
    /\ live' = live \cup { <<calls, field>> }
    /\ trace' = Traced(step, TRUE)
    /\ UNCHANGED <<result, raised>>

\* A mutant of the map_err of the create_* steps: the error is reported as
\* a start error.
LinkMappedToStart(e) == InstantiationError_Start(e)

\* The map_err of steps 2 to 5.
map_err_Link(e) == InstantiationError_Link(e)

\* A mutant of the map_err of InstanceHandle::new: the trap is reported as
\* a link error.
TrapMappedToLink(trap) == InstantiationError_Link(RuntimeError_from_trap(trap))

\* The map_err of InstanceHandle::new and of finish_instantiation.
map_err_Start(trap) == InstantiationError_Start(RuntimeError_from_trap(trap))

\* instantiate is called with a resolver.
instantiate ==
    /\ pc \in {"idle", "returned"}
    /\ calls < MaxInstantiations
    /\ calls' = calls + 1
    /\ resolver' \in SUBSET ImportNames
    /\ pc' = "preinstantiate"
    /\ locals' = NoLocals
    /\ result' = None
    /\ finished' = None
    /\ handed' = None
    /\ trace' = << >>
    /\ raised' = None
    /\ UNCHANGED <<artifact, live, frame_info, nonArtVars>>

\* self.preinstantiate()?
preinstantiate ==
    /\ pc = "preinstantiate"
    /\ \/ /\ pc' = "resolve_imports"
          /\ trace' = Traced("preinstantiate", TRUE)
          /\ UNCHANGED <<locals, live, result, raised>>
       \/ \E e \in PreinstantiateErrors :
             /\ raised' = Some(e)
             /\ Return("preinstantiate", Err(e))
    /\ UNCHANGED <<artifact, handed, resolver, calls, frame_info, finished, nonArtVars>>

\* let imports = resolve_imports(..).map_err(InstantiationError::Link)?
resolve_imports ==
    /\ pc = "resolve_imports"
    /\ LET r == resolve_imports_of(artifact.imports, resolver)
       IN  IF r.ok
           THEN Bind("resolve_imports", "imports", "create_memories")
           ELSE /\ raised' = Some(r.error)
                /\ Return("resolve_imports", Err(map_err_Link(r.error)))
    /\ UNCHANGED <<artifact, handed, resolver, calls, frame_info, finished, nonArtVars>>

\* A create_* step of the tunables: it succeeds or gives a LinkError.
Create(step, field, next) ==
    /\ pc = step
    /\ \/ Bind(step, field, next)
       \/ /\ raised' = Some(ResourceError(step))
          /\ Return(step, Err(map_err_Link(ResourceError(step))))
    /\ UNCHANGED <<artifact, handed, resolver, calls, frame_info, finished, nonArtVars>>

create_memories == Create("create_memories", "finished_memories", "create_tables")

create_tables == Create("create_tables", "finished_tables", "create_globals")

\* A mutant of create_globals: the handle is built next.
create_globals_then_handle ==
    Create("create_globals", "finished_globals", "InstanceHandle_new")

create_globals ==
    Create("create_globals", "finished_globals", "register_frame_info")

\* self.register_frame_info()
register_frame_info ==
    /\ pc = "register_frame_info"
    /\ frame_info' = TRUE
    /\ pc' = "InstanceHandle_new"
    /\ trace' = Traced("register_frame_info", TRUE)
    /\ UNCHANGED <<artifact, handed, resolver, calls, locals, live, result, finished,
                   raised, nonArtVars>>

\* InstanceHandle::new(..).map_err(..): the local values are moved into the
\* call; the handle owns them, and a call that traps drops them.
InstanceHandle_new ==
    /\ pc = "InstanceHandle_new"
    /\ \/ /\ pc' = "returned"
          /\ result' = Some(Ok([handle |-> calls, owns |-> Owned(locals)]))
          /\ locals' = NoLocals
          /\ trace' = Traced("InstanceHandle_new", TRUE)
          /\ UNCHANGED <<live, raised>>
       \/ \E trap \in Traps :
             /\ raised' = Some(trap)
             /\ pc' = "returned"
             /\ result' = Some(Err(map_err_Start(trap)))
             /\ live' = live \ DroppedByCallee(locals)
             /\ locals' = NoLocals
             /\ trace' = Traced("InstanceHandle_new", FALSE)
    /\ UNCHANGED <<artifact, handed, resolver, calls, frame_info, finished, nonArtVars>>

\* A mutant of DataInitializer: the data is placed at offset 0.
DataInitializer_at_zero(init) ==
    [ location |-> [init.location EXCEPT !.offset = 0], data |-> init.data ]

\* DataInitializer { location: init.location.clone(), data: &*init.data }
DataInitializer(init) == [ location |-> init.location, data |-> init.data ]

\* finish_instantiation(handle), for the handle instantiate returned: the
\* data initializers are collected and given to the handle, which returns
\* Ok or a trap.
finish_instantiation ==
    /\ pc = "returned"
    /\ result # None
    /\ result[1].ok
    /\ finished = None
    /\ LET data_initializers ==
               [ i \in DOMAIN artifact.data_initializers |->
                   DataInitializer(artifact.data_initializers[i]) ]
       IN  handed' = Some(data_initializers)
    /\ \/ /\ finished' = Some(Ok(<< >>))
          /\ UNCHANGED raised
       \/ \E trap \in Traps :
             /\ raised' = Some(trap)
             /\ finished' = Some(Err(map_err_Start(trap)))
    /\ UNCHANGED <<artifact, resolver, calls, pc, locals, live, frame_info,
                   result, trace, nonArtVars>>

NextArtifact ==
    \/ instantiate
    \/ preinstantiate
    \/ resolve_imports
    \/ create_memories
    \/ create_tables
    \/ create_globals
    \/ register_frame_info
    \/ InstanceHandle_new
    \/ finish_instantiation

----------------------------------------------------------------------------
(* The early exit example (examples/early_exit.rs): main calls the export  *)
(* run of a module whose function run calls the imported host function     *)
(* early_exit and then adds its two parameters.  The host function is      *)
(* taken with any payload to raise, and also as one that returns.          *)

\* The error payloads of the embedder: a type and the code it carries.
Payloads == [ type : {"ExitCode", "OtherError"}, code : 0..2 ]

\* The arguments of run.
RunArgs == { <<1, 7>>, <<0, 7>>, <<2, 8>> }

Top == stack[Len(stack)]

Pop == SubSeq(stack, 1, Len(stack) - 1)

\* e.downcast::<T>(): the payload if it is a T, else the error back.
downcast(e, T) == IF e.payload.type = T THEN Ok(e.payload) ELSE Err(e)

\* let run_func = ..; run_func.call(x, y): the Wasm function run is entered.
run_func_call ==
    /\ stack = <<"main">>
    /\ call_ret = None
    /\ stack' = <<"main", "run">>
    /\ UNCHANGED <<host_raises, args, executed, unwinding, call_ret, main_ret,
                   nonExVars>>

\* (call $early_exit): the host function is entered.
call_early_exit ==
    /\ Top = "run"
    /\ executed = << >>
    /\ executed' = <<"call $early_exit">>
    /\ stack' = Append(stack, "early_exit")
    /\ UNCHANGED <<host_raises, args, unwinding, call_ret, main_ret, nonExVars>>

\* A mutant of early_exit: the host function returns without raising.
early_exit_returns ==
    /\ Top = "early_exit"
    /\ unwinding = None
    /\ stack' = Pop
    /\ UNCHANGED <<host_raises, args, executed, unwinding, call_ret, main_ret,
                   nonExVars>>

\* fn early_exit: RuntimeError::raise(Box::new(payload)), which does not
\* return; a host function that raises nothing returns.
early_exit ==
    /\ Top = "early_exit"
    /\ unwinding = None
    /\ IF host_raises = None
       THEN stack' = Pop /\ UNCHANGED unwinding
       ELSE unwinding' = host_raises /\ UNCHANGED stack
    /\ UNCHANGED <<host_raises, args, executed, call_ret, main_ret, nonExVars>>

\* The raised payload leaves a frame; out of the Wasm frame, it is what
\* the call of the export returns.
unwind ==
    /\ unwinding # None
    /\ stack' = Pop
    /\ IF Top = "run"
       THEN /\ call_ret' = Some(Err([payload |-> unwinding[1]]))
            /\ unwinding' = None
       ELSE UNCHANGED <<call_ret, unwinding>>
    /\ UNCHANGED <<host_raises, args, executed, main_ret, nonExVars>>

\* (i32.add local.get $x local.get $y) and the return of run.
i32_add ==
    /\ Top = "run"
    /\ executed = <<"call $early_exit">>
    /\ unwinding = None
    /\ executed' = Append(executed, "i32.add")
    /\ stack' = Pop
    /\ call_ret' = Some(Ok(args[1] + args[2]))
    /\ UNCHANGED <<host_raises, args, unwinding, main_ret, nonExVars>>

\* match run_func.call(1, 7) { .. }: the arms of main.
main_match ==
    /\ stack = <<"main">>
    /\ call_ret # None
    /\ main_ret = None
    /\ main_ret' =
          IF call_ret[1].ok
          THEN Some(Err([bail |-> "Expected early termination", found |-> call_ret[1].value]))
          ELSE LET d == downcast(call_ret[1].error, "ExitCode")
               IN  IF d.ok
                   THEN Some(Ok([exit_code |-> d.value]))
                   ELSE Some(Err([bail |-> "Unknown error", found |-> d.error]))
    /\ UNCHANGED <<host_raises, args, stack, executed, unwinding, call_ret, nonExVars>>

NextExample ==
    \/ run_func_call
    \/ call_early_exit
    \/ early_exit
    \/ unwind
    \/ i32_add
    \/ main_match

----------------------------------------------------------------------------
(* Native functions (lib/wasm-common/src/native.rs).  A host function is   *)
(* kept as its Rust parameter and result types, its kind, and whether its  *)
(* type is zero-sized (a fn item or a closure that captures nothing) or    *)
(* holds state (a capturing closure, a fn pointer).  Values are i32.       *)

RustTypes == {"i32", "i64", "f32", "f64"}

\* impl_traits! is instantiated for the tuples of 0 to 5 types.
MaxArity == 5

TypeLists(n) == UNION { [1..k -> RustTypes] : k \in 0..n }

AllI32(list) == \A i \in DOMAIN list : list[i] = "i32"

\* The host functions: the ones that are called take and return i32s.
HostFunctions ==
    { h \in [ args : TypeLists(MaxArity), rets : TypeLists(MaxResults),
              kind : {"WithoutEnv", "WithEnv"}, zero_sized : BOOLEAN ] :
        h.zero_sized \/ (AllI32(h.args) /\ AllI32(h.rets)) }

\* The environments, by address, and the values of the second slot.
EnvPtrs == {1, 2}

Slots == {1, 2}

ArgValues == {1, 3}

\* NativeWasmType::WASM_TYPE of the four native types.
WASM_TYPE(t) ==
    CASE t = "i32" -> "I32"
      [] t = "i64" -> "I64"
      [] t = "f32" -> "F32"
      [] t = "f64" -> "F64"

\* A mutant of wasm_types: the types in reverse order.
wasm_types_reversed(list) ==
    [i \in DOMAIN list |-> WASM_TYPE(list[Len(list) + 1 - i])]

\* WasmTypeList::wasm_types of a tuple: &[$( $x::WASM_TYPE ),*].
wasm_types(list) == [i \in DOMAIN list |-> WASM_TYPE(list[i])]

FuncType_new(params, returns) == [params |-> params, results |-> returns]

RECURSIVE Sum(_)
Sum(a) == IF a = << >> THEN 0 ELSE a[1] + Sum(Tail(a))

\* The host functions of the tests, for any arity: without environment
\* twice the sum of the arguments (func_i32__i32 is a * 2), with
\* environment env.num times it (func_i32__i32_env), in every result.
host_function(h, num, a) ==
    [j \in DOMAIN h.rets |-> IF h.kind = "WithEnv" THEN num * Sum(a) ELSE Sum(a) * 2]

\* Func::new and Func::new_env: to_raw gives the address of wrap.
Func_new ==
    /\ subject # None
    /\ subject[1].func = None
    /\ subject[1].host.kind = "WithoutEnv"
    /\ subject' = Some([subject[1] EXCEPT !.func =
                          Some([ address |-> "wrap", env |-> None,
                                 Args |-> subject[1].host.args,
                                 Rets |-> subject[1].host.rets ])])
    /\ UNCHANGED <<outcome, nonFnVars>>

Func_new_env ==
    /\ subject # None
    /\ subject[1].func = None
    /\ subject[1].host.kind = "WithEnv"
    /\ \E env \in EnvPtrs :
          subject' = Some([subject[1] EXCEPT !.func =
                             Some([ address |-> "wrap", env |-> Some(env),
                                    Args |-> subject[1].host.args,
                                    Rets |-> subject[1].host.rets ])])
    /\ UNCHANGED <<outcome, nonFnVars>>

\* Func::ty and Func::env.
Func_ty ==
    /\ subject # None
    /\ subject[1].func # None
    /\ outcome = None
    /\ LET func == subject[1].func[1]
       IN  outcome' = Some([ fn |-> "ty",
                             value |-> FuncType_new(wasm_types(func.Args),
                                                    wasm_types(func.Rets)) ])
    /\ UNCHANGED <<subject, nonFnVars>>

Func_env ==
    /\ subject # None
    /\ subject[1].func # None
    /\ outcome = None
    /\ outcome' = Some([fn |-> "env", value |-> subject[1].func[1].env])
    /\ UNCHANGED <<subject, nonFnVars>>

\* wrap, called through the raw pointer with two leading slots and the
\* arguments.  It takes the host function from a reference to (): that is
\* the host function when its type is zero-sized, and a read of memory
\* that is not its own otherwise, after which the result is any value.
wrap ==
    /\ subject # None
    /\ subject[1].func # None
    /\ outcome = None
    /\ LET h == subject[1].host
       IN  /\ AllI32(h.args) /\ AllI32(h.rets)
           /\ \E slot1 \in EnvPtrs, slot2 \in Slots, v \in ArgValues :
                LET a == [i \in DOMAIN h.args |-> v + i]
                    num == subject[1].heap[slot1]
                    rets == host_function(h, num, a)
                IN  /\ \E value \in IF h.zero_sized
                                    THEN {rets}
                                    ELSE {rets, [j \in DOMAIN h.rets |-> 0]} :
                          outcome' = Some([ fn |-> "wrap", slots |-> <<slot1, slot2>>,
                                            args |-> a, num |-> num, value |-> value ])
                    /\ subject' = Some([subject[1] EXCEPT !.heap[slot1] =
                                          IF h.kind = "WithEnv" THEN 10 ELSE @])
    /\ UNCHANGED nonFnVars

NextFunc ==
    \/ Func_new
    \/ Func_new_env
    \/ Func_ty
    \/ Func_env
    \/ wrap

----------------------------------------------------------------------------
(* Source locations (lib/compiler/src/sourceloc.rs): a u32 in a tuple      *)
(* struct, the u32 kept as limbs.                                          *)

Limbs == {0, 1, 16, 43981, 65534, 65535}

BitPatterns == { U32(h, l) : h \in Limbs, l \in Limbs }

\* !x on a u32.
Not(x) == U32(Limb - 1 - x.hi, Limb - 1 - x.lo)

\* SourceLoc::new, bits, default and is_default.
SourceLoc_new(bits) == <<bits>>

SourceLoc_bits(self) == self[1]

\* A mutant of SourceLoc::default: the all-zero pattern.
SourceLoc_default_zero == <<Zero>>

SourceLoc_default == <<Not(Zero)>>

SourceLoc_is_default(self) == self = SourceLoc_default

\* A SourceLoc is made, by new from the bits given or by default.
Call_SourceLoc_new ==
    /\ subject # None
    /\ subject[1].loc = None
    /\ subject' = Some([subject[1] EXCEPT !.loc = Some(SourceLoc_new(subject[1].arg)),
                                          !.made = "new"])
    /\ UNCHANGED <<outcome, nonFnVars>>

Call_SourceLoc_default ==
    /\ subject # None
    /\ subject[1].loc = None
    /\ subject' = Some([subject[1] EXCEPT !.loc = Some(SourceLoc_default),
                                          !.made = "default"])
    /\ UNCHANGED <<outcome, nonFnVars>>

\* bits and is_default are called on the SourceLoc made.
Call_SourceLoc_bits ==
    /\ subject # None
    /\ subject[1].loc # None
    /\ outcome = None
    /\ outcome' = Some([fn |-> "bits", value |-> SourceLoc_bits(subject[1].loc[1])])
    /\ UNCHANGED <<subject, nonFnVars>>

Call_SourceLoc_is_default ==
    /\ subject # None
    /\ subject[1].loc # None
    /\ outcome = None
    /\ outcome' = Some([fn |-> "is_default",
                        value |-> SourceLoc_is_default(subject[1].loc[1])])
    /\ UNCHANGED <<subject, nonFnVars>>

NextSourceLoc ==
    \/ Call_SourceLoc_new
    \/ Call_SourceLoc_default
    \/ Call_SourceLoc_bits
    \/ Call_SourceLoc_is_default

----------------------------------------------------------------------------
(* WasmTypeList (lib/wasm-common/src/native.rs): the arrays of 64-bit      *)
(* slots of a tuple of native types.                                       *)

\* unimplemented!(msg): the call panics.
unimplemented(msg) == [panicked |-> TRUE, value |-> << >>, msg |-> msg]

Returned(v) == [panicked |-> FALSE, value |-> v, msg |-> ""]

\* from_array, into_array and empty_array of the tuples of 0 to 5 types.
from_array(array) == unimplemented("from array")

into_array(self) == unimplemented("into array")

empty_array(list) == Returned([i \in 1..Len(list) |-> 0])

\* One of them is called for a tuple type: into_array on a tuple of its
\* values, from_array on an array of its slots.
Call_empty_array ==
    /\ subject # None
    /\ outcome = None
    /\ outcome' = Some([fn |-> "empty_array"] @@ empty_array(subject[1].list))
    /\ UNCHANGED <<subject, nonFnVars>>

Call_into_array ==
    /\ subject # None
    /\ outcome = None
    /\ outcome' = Some([fn |-> "into_array"] @@ into_array(subject[1].x))
    /\ UNCHANGED <<subject, nonFnVars>>

Call_from_array ==
    /\ subject # None
    /\ outcome = None
    /\ outcome' = Some([fn |-> "from_array"] @@ from_array(subject[1].x))
    /\ UNCHANGED <<subject, nonFnVars>>

NextTypeList ==
    \/ Call_empty_array
    \/ Call_into_array
    \/ Call_from_array

----------------------------------------------------------------------------
(* ModuleEnvironment::translate (lib/compiler/src/translator/environ.rs).  *)
(* outcome is what translate has returned, None while it runs.             *)

\* translate_module: the sections are decoded and their declare operations
\* called, until one returns an Err or the data ends.
translate_module ==
    /\ outcome = None
    /\ NextEnv

\* translate returns: the Err of translate_module as it is, or the result
\* with module_translation set.  After a panic nothing is returned.
translate ==
    /\ outcome = None
    /\ status # "panic"
    /\ outcome' =
         Some(IF status = "ok"
              THEN Ok([module |-> module,
                       module_translation |-> Some("ModuleTranslationState")])
              ELSE Err(status))
    /\ UNCHANGED <<subject, nonFnVars>>

NextTranslate ==
    \/ translate_module
    \/ translate

----------------------------------------------------------------------------
(* VMOffsets::new (lib/compiler/src/vm.rs): the offsets of a translated    *)
(* module.                                                                 *)

\* cast_to_u32: the usize as a u32; the lengths of the model fit.
cast_to_u32(sz) == FromInt(sz)

VMOffsets_new(pointer_size, m) ==
    [ pointer_size           |-> pointer_size,
      num_signature_ids      |-> cast_to_u32(Len(m.signatures)),
      num_imported_functions |-> cast_to_u32(m.num_imported_funcs),
      num_imported_tables    |-> cast_to_u32(m.num_imported_tables),
      num_imported_memories  |-> cast_to_u32(m.num_imported_memories),
      num_imported_globals   |-> cast_to_u32(m.num_imported_globals),
      num_defined_tables     |-> cast_to_u32(Len(m.table_plans)),
      num_defined_memories   |-> cast_to_u32(Len(m.memory_plans)),
      num_defined_globals    |-> cast_to_u32(Len(m.globals)) ]

\* VMOffsets::new is called with the module translate has returned.
Call_VMOffsets_new(pointer_size) ==
    /\ outcome # None
    /\ outcome[1].ok
    /\ ret = NoCall
    /\ offsets' = VMOffsets_new(pointer_size, outcome[1].value.module)
    /\ ret' = [fn |-> "VMOffsets::new", index |-> Zero, value |-> Zero]
    /\ UNCHANGED <<overflow_checks, nonVmVars>>

NextCompile ==
    \/ NextTranslate
    \/ \E pointer_size \in PointerSizes : Call_VMOffsets_new(pointer_size)

----------------------------------------------------------------------------
(* CompiledFunctionUnwindInfo (lib/compiler/src/unwind.rs).  An            *)
(* FDERelocEntry(i64, usize, u8) is the tuple of its three fields; the     *)
(* usize is kept as limbs, and may exceed 32 bits.                         *)

ByteStrings == { << >>, <<1>>, <<1, 2>> }

\* 8, 2^32 + 8: a usize of a 64-bit target that fits a u32, and one that
\* does not.
Usizes == { FromInt(8), U32(Limb, 8) }

FDERelocEntries == {-4, 0} \X Usizes \X {4, 8}

\* The lists of at most MaxRelocs entries.
MaxRelocs == 2

FDERelocEntryLists == UNION { [1..n -> FDERelocEntries] : n \in 0..MaxRelocs }

CompiledFunctionUnwindInfos ==
    { [shape |-> "None"] }
      \cup { [shape |-> "Windows", d |-> d] : d \in ByteStrings }
      \cup { [shape |-> "FrameLayout", code |-> c, fde_offset |-> 0, r |-> r] :
               c \in ByteStrings, r \in FDERelocEntryLists }

\* The relocations the vector holds before serialize is called.
FunctionTableRelocs ==
    { << >>, << [offset |-> FromInt(16), addend |-> 0] >> }

CompiledFunctionUnwindInfo_is_empty(self) ==
    CASE self.shape = "None" -> TRUE
      [] self.shape = "Windows" -> self.d = << >>
      [] self.shape = "FrameLayout" -> self.code = << >>

CompiledFunctionUnwindInfo_len(self) ==
    CASE self.shape = "None" -> 0
      [] self.shape = "Windows" -> Len(self.d)
      [] self.shape = "FrameLayout" -> Len(self.code)

\* dest.copy_from_slice(src): the lengths must be equal.
copy_from_slice(dest, src) ==
    IF Len(dest) = Len(src)
    THEN [panicked |-> FALSE, dest |-> src]
    ELSE [panicked |-> TRUE, dest |-> dest]

\* `r.1 as _`: the usize as a CodeOffset, a u32.
as_CodeOffset(x) == Wrap(x)

\* r.iter().for_each(..): each entry is asserted to have size 8 and pushed
\* as a FunctionTableReloc; a failed assertion ends the loop and the process.
RECURSIVE for_each_push(_, _)
for_each_push(r, relocs) ==
    IF r = << >>
    THEN [panicked |-> FALSE, relocs |-> relocs]
    ELSE IF Head(r)[3] # 8
         THEN [panicked |-> TRUE, relocs |-> relocs]
         ELSE for_each_push(Tail(r),
                  Append(relocs, [offset |-> as_CodeOffset(Head(r)[2]),
                                  addend |-> Head(r)[1]]))

CompiledFunctionUnwindInfo_serialize(self, dest, relocs) ==
    CASE self.shape = "None" ->
           [panicked |-> FALSE, dest |-> dest, relocs |-> relocs]
      [] self.shape = "Windows" ->
           copy_from_slice(dest, self.d) @@ [relocs |-> relocs]
      [] self.shape = "FrameLayout" ->
           LET copied == copy_from_slice(dest, self.code)
           IN  IF copied.panicked
               THEN copied @@ [relocs |-> relocs]
               ELSE for_each_push(self.r, relocs) @@ [dest |-> copied.dest]

Call_CompiledFunctionUnwindInfo_is_empty ==
    /\ outcome = None
    /\ outcome' = Some([fn |-> "is_empty",
                        value |-> CompiledFunctionUnwindInfo_is_empty(subject[1].u)])
    /\ UNCHANGED <<subject, nonFnVars>>

Call_CompiledFunctionUnwindInfo_len ==
    /\ outcome = None
    /\ outcome' = Some([fn |-> "len",
                        value |-> CompiledFunctionUnwindInfo_len(subject[1].u)])
    /\ UNCHANGED <<subject, nonFnVars>>

Call_CompiledFunctionUnwindInfo_serialize ==
    /\ outcome = None
    /\ outcome' = Some([fn |-> "serialize",
                        value |-> CompiledFunctionUnwindInfo_serialize(
                                      subject[1].u, subject[1].dest,
                                      subject[1].relocs)])
    /\ UNCHANGED <<subject, nonFnVars>>

NextUnwind ==
    \/ Call_CompiledFunctionUnwindInfo_is_empty
    \/ Call_CompiledFunctionUnwindInfo_len
    \/ Call_CompiledFunctionUnwindInfo_serialize

----------------------------------------------------------------------------
(* Compilation (lib/compiler/src/function.rs).  A Range<usize> is the pair *)
(* of its start and end; the key k of a PrimaryMap is element k + 1 of a   *)
(* sequence.                                                               *)

\* The function buffer, and the operating system of the target the
\* functions were compiled for.
Buffer == <<10, 11, 12, 13>>

BodyRanges == { <<0, 2>>, <<2, 4>>, <<3, 5>> }

UnwindRanges == { <<2, 2>>, <<2, 4>> }

\* Jump table offsets, relocations and traps of a function: none, or one
\* of each.
FunctionTables ==
    { [ jt_offsets |-> << >>, relocations |-> << >>, traps |-> << >> ],
      [ jt_offsets |-> <<1>>,
        relocations |-> << [kind |-> "Abs8", offset |-> 0, addend |-> 0] >>,
        traps |-> << [code_offset |-> 1, trap_code |-> "Unreachable"] >> ] }

\* (body_range, jt_offsets, unwind_range, relocations, traps)
FunctionTuples ==
    { <<b, t.jt_offsets, u, t.relocations, t.traps>> :
        b \in BodyRanges, u \in UnwindRanges, t \in FunctionTables }

\* The lists of at most MaxFunctions tuples.
MaxFunctions == 2

FunctionTupleLists == UNION { [1..n -> FunctionTuples] : n \in 0..MaxFunctions }

\* buffer[range].to_vec(): the bytes from start to end, or a panic when the
\* range does not lie in the buffer.
Slice(buffer, range) ==
    IF range[1] <= range[2] /\ range[2] <= Len(buffer)
    THEN Returned(SubSeq(buffer, range[1] + 1, range[2]))
    ELSE [panicked |-> TRUE, value |-> << >>, msg |-> "range out of bounds"]

\* Compilation::from_buffer: a CompiledFunction for each tuple, collected
\* in the order of the tuples.
Compilation_from_buffer(buffer, functions) ==
    IF \E k \in DOMAIN functions :
           \/ Slice(buffer, functions[k][1]).panicked
           \/ Slice(buffer, functions[k][3]).panicked
    THEN [panicked |-> TRUE, value |-> << >>, msg |-> "range out of bounds"]
    ELSE Returned(
           [ functions |->
               [ k \in DOMAIN functions |->
                   [ body        |-> Slice(buffer, functions[k][1]).value,
                     jt_offsets  |-> functions[k][2],
                     unwind_info |-> [ shape |-> "Windows",
                                       d |-> Slice(buffer, functions[k][3]).value ],
                     relocations |-> functions[k][4],
                     traps       |-> functions[k][5] ] ] ])

\* &self.functions[func]: a panic when func is not a key.
Compilation_get(self, func) ==
    IF func + 1 \in DOMAIN self.functions
    THEN Returned(self.functions[func + 1])
    ELSE [panicked |-> TRUE, value |-> << >>, msg |-> "index out of bounds"]

Compilation_len(self) == Len(self.functions)

Compilation_get_jt_offsets(self) ==
    [ k \in DOMAIN self.functions |-> self.functions[k].jt_offsets ]

Compilation_get_relocations(self) ==
    [ k \in DOMAIN self.functions |-> self.functions[k].relocations ]

Compilation_get_traps(self) ==
    [ k \in DOMAIN self.functions |-> self.functions[k].traps ]

\* from_buffer is called with the buffer and the tuples.
Call_Compilation_from_buffer ==
    /\ outcome = None
    /\ outcome' = Some([ fn |-> "from_buffer", func |-> 0,
                         compilation |->
                             Compilation_from_buffer(subject[1].buffer,
                                                     subject[1].functions),
                         ret |-> << >> ])
    /\ UNCHANGED <<subject, nonFnVars>>

\* A function of the Compilation from_buffer returned is called.
CallCompilation(fn, func, value) ==
    /\ outcome # None
    /\ outcome[1].fn = "from_buffer"
    /\ ~outcome[1].compilation.panicked
    /\ outcome' = Some([outcome[1] EXCEPT !.fn = fn, !.func = func, !.ret = value])
    /\ UNCHANGED <<subject, nonFnVars>>

Call_Compilation_get(func) ==
    CallCompilation("get", func, Compilation_get(outcome[1].compilation.value, func))

Call_Compilation_len ==
    CallCompilation("len", 0, Compilation_len(outcome[1].compilation.value))

Call_Compilation_get_jt_offsets ==
    CallCompilation("get_jt_offsets", 0,
                    Compilation_get_jt_offsets(outcome[1].compilation.value))

Call_Compilation_get_relocations ==
    CallCompilation("get_relocations", 0,
                    Compilation_get_relocations(outcome[1].compilation.value))

Call_Compilation_get_traps ==
    CallCompilation("get_traps", 0,
                    Compilation_get_traps(outcome[1].compilation.value))

NextCompilation ==
    \/ Call_Compilation_from_buffer
    \/ \E func \in 0..MaxFunctions : Call_Compilation_get(func)
    \/ Call_Compilation_len
    \/ Call_Compilation_get_jt_offsets
    \/ Call_Compilation_get_relocations
    \/ Call_Compilation_get_traps

----------------------------------------------------------------------------
(* The specifications. *)

\* The parts of the state a specification does not exercise.
VMIdle ==
    /\ overflow_checks = TRUE
    /\ offsets = MkOffsets(8, [f \in CountFields |-> 0], <<"none", Zero>>)
    /\ ret = NoCall

EnvIdle ==
    /\ debug_assertions = TRUE
    /\ module = Module_new
    /\ imports = 0
    /\ status = "ok"

TunablesIdle ==
    /\ triple = HOST
    /\ tunables = None

ArtifactIdle ==
    /\ artifact = [imports |-> {}, data_initializers |-> << >>]
    /\ resolver = {}
    /\ calls = 0
    /\ pc = "idle"
    /\ locals = NoLocals
    /\ live = {}
    /\ frame_info = FALSE
    /\ result = None
    /\ finished = None
    /\ handed = None
    /\ trace = << >>
    /\ raised = None

ExampleIdle ==
    /\ host_raises = None
    /\ args = <<1, 7>>
    /\ stack = <<"main">>
    /\ executed = << >>
    /\ unwinding = None
    /\ call_ret = None
    /\ main_ret = None

FnIdle ==
    /\ subject = None
    /\ outcome = None

\* A VMOffsets and a build are chosen, and one of its functions is called.
InitVM ==
    /\ overflow_checks \in BOOLEAN
    /\ \/ \E p \in PointerSizes, c \in SmallCounts, big \in BigChoices :
             offsets = MkOffsets(p, c, big)
       \/ offsets = Scenario6Offsets
    /\ ret = NoCall
    /\ EnvIdle
    /\ TunablesIdle
    /\ ArtifactIdle
    /\ ExampleIdle
    /\ FnIdle

SpecVM == InitVM /\ [][NextVM]_vars

\* A record-layout function is called: these depend on the pointer size
\* alone, so the counts stay small.
InitLayout ==
    /\ overflow_checks \in BOOLEAN
    /\ \E p \in PointerSizes, c \in SmallCounts :
          offsets = MkOffsets(p, c, <<"none", Zero>>)
    /\ ret = NoCall
    /\ EnvIdle
    /\ TunablesIdle
    /\ ArtifactIdle
    /\ ExampleIdle
    /\ FnIdle

SpecLayout == InitLayout /\ [][NextLayout]_vars

\* ModuleEnvironment::new, in a build with or without debug assertions.
InitEnv ==
    /\ debug_assertions \in BOOLEAN
    /\ module = Module_new
    /\ imports = 0
    /\ status = "ok"
    /\ VMIdle
    /\ TunablesIdle
    /\ ArtifactIdle
    /\ ExampleIdle
    /\ FnIdle

SpecEnv == InitEnv /\ [][NextEnv]_vars

\* Tunables::for_target is called with a target.
InitTunables ==
    /\ triple \in Triples
    /\ tunables = None
    /\ VMIdle
    /\ EnvIdle
    /\ ArtifactIdle
    /\ ExampleIdle
    /\ FnIdle

SpecTunables == InitTunables /\ [][NextTunables]_vars

\* An artifact whose module declares some imports, not yet instantiated.
InitArtifact ==
    /\ artifact \in [ imports : SUBSET ImportNames,
                      data_initializers : DataInitializerLists ]
    /\ resolver = {}
    /\ calls = 0
    /\ pc = "idle"
    /\ locals = NoLocals
    /\ live = {}
    /\ frame_info = FALSE
    /\ result = None
    /\ finished = None
    /\ handed = None
    /\ trace = << >>
    /\ raised = None
    /\ VMIdle
    /\ EnvIdle
    /\ TunablesIdle
    /\ ExampleIdle
    /\ FnIdle

SpecArtifact == InitArtifact /\ [][NextArtifact]_vars

\* main is about to call run, with a host function that raises a payload
\* or returns.
InitExample ==
    /\ host_raises \in {None} \cup { Some(p) : p \in Payloads }
    /\ args \in RunArgs
    /\ stack = <<"main">>
    /\ executed = << >>
    /\ unwinding = None
    /\ call_ret = None
    /\ main_ret = None
    /\ VMIdle
    /\ EnvIdle
    /\ TunablesIdle
    /\ ArtifactIdle
    /\ FnIdle

SpecExample == InitExample /\ [][NextExample]_vars

\* A host function, and two environments with their num fields.
InitFunc ==
    /\ \E h \in HostFunctions :
          subject = Some([host |-> h, func |-> None, heap |-> <<2, 3>>])
    /\ outcome = None
    /\ VMIdle
    /\ EnvIdle
    /\ TunablesIdle
    /\ ArtifactIdle
    /\ ExampleIdle

SpecFunc == InitFunc /\ [][NextFunc]_vars

\* The bits a SourceLoc may be made from.
InitSourceLoc ==
    /\ \E b \in BitPatterns :
          subject = Some([arg |-> b, loc |-> None, made |-> "none"])
    /\ outcome = None
    /\ VMIdle
    /\ EnvIdle
    /\ TunablesIdle
    /\ ArtifactIdle
    /\ ExampleIdle

SpecSourceLoc == InitSourceLoc /\ [][NextSourceLoc]_vars

\* The parts no pure function touches.
OthersIdle ==
    /\ VMIdle
    /\ EnvIdle
    /\ TunablesIdle
    /\ ArtifactIdle
    /\ ExampleIdle

\* A tuple type of 0 to 5 native types and a tuple of its values.
InitTypeList ==
    /\ \E list \in TypeLists(MaxArity), v \in ArgValues :
          subject = Some([list |-> list, x |-> [i \in DOMAIN list |-> v + i]])
    /\ outcome = None
    /\ OthersIdle

SpecTypeList == InitTypeList /\ [][NextTypeList]_vars

\* The sections of a module are declared, the types of the functions
\* along with the entities.
NextSignatures ==
    \/ \E sig \in FuncTypes : declare_signature(sig)
    \/ NextEnv

SpecSignatures == InitEnv /\ [][NextSignatures]_vars

\* The sections of a module are declared, the names of the functions
\* along with the entities.
NextNames ==
    \/ \E func_index \in FuncIndexes, name \in FuncNames :
          declare_func_name(func_index, name)
    \/ NextEnv

SpecNames == InitEnv /\ [][NextNames]_vars

\* A module is translated by a new environment.
SpecTranslate == InitEnv /\ [][NextTranslate]_vars

\* A module is translated and its VMOffsets are made.
SpecCompile == InitEnv /\ [][NextCompile]_vars

\* An unwind info, a destination of its length and a vector of relocations.
InitUnwind ==
    /\ \E u \in CompiledFunctionUnwindInfos, relocs \in FunctionTableRelocs :
          subject = Some([u |-> u,
                          dest |-> [i \in 1..CompiledFunctionUnwindInfo_len(u) |-> 0],
                          relocs |-> relocs])
    /\ outcome = None
    /\ OthersIdle

SpecUnwind == InitUnwind /\ [][NextUnwind]_vars

\* The function buffer of a module compiled for a target, and the tuples
\* of its functions.
InitCompilation ==
    /\ \E functions \in FunctionTupleLists, os \in {"Linux", "Windows"} :
          subject = Some([ buffer |-> Buffer, functions |-> functions,
                           operating_system |-> os ])
    /\ outcome = None
    /\ OthersIdle

SpecCompilation == InitCompilation /\ [][NextCompilation]_vars

\* The passive segments of a module are declared.
NextSegments ==
    \/ \E elem_index \in ElemIndexes, segments \in ElemSegments :
          declare_passive_element(elem_index, segments)
    \/ \E data_index \in DataIndexes, data \in DataSegments :
          declare_passive_data(data_index, data)

SpecSegments == InitEnv /\ [][NextSegments]_vars


----------------------------------------------------------------------------
(* The exact layout: the offsets as mathematical numbers, with the record  *)
(* sizes of the layout table (P is the pointer size).  Nothing here wraps  *)
(* or fails; it is what the claims compare the code with.                  *)

RoundUp16(x) == MMul(MDiv(MAdd(x, FromInt(15)), 16), 16)

\* The regions in layout order: the function that gives the begin, the
\* count of records and the size of one record.
Regions(o) ==
    << [begin |-> "vmctx_signature_ids_begin",      count |-> o.num_signature_ids,      size |-> 4],
       [begin |-> "vmctx_imported_functions_begin", count |-> o.num_imported_functions, size |-> 2 * o.pointer_size],
       [begin |-> "vmctx_imported_tables_begin",    count |-> o.num_imported_tables,    size |-> 2 * o.pointer_size],
       [begin |-> "vmctx_imported_memories_begin",  count |-> o.num_imported_memories,  size |-> 2 * o.pointer_size],
       [begin |-> "vmctx_imported_globals_begin",   count |-> o.num_imported_globals,   size |-> o.pointer_size],
       [begin |-> "vmctx_tables_begin",             count |-> o.num_defined_tables,     size |-> 2 * o.pointer_size],
       [begin |-> "vmctx_memories_begin",           count |-> o.num_defined_memories,   size |-> 2 * o.pointer_size],
       [begin |-> "vmctx_globals_begin",            count |-> o.num_defined_globals,    size |-> 16],
       [begin |-> "vmctx_builtin_functions_begin",  count |-> FromInt(13),              size |-> o.pointer_size],
       [begin |-> "size_of_vmctx",                  count |-> Zero,                     size |-> 0] >>

RECURSIVE ExactBegin(_, _)
\* The exact begin of region k: the end of region k - 1, rounded up to a
\* multiple of 16 for the globals.
ExactBegin(o, k) ==
    IF k = 1 THEN Zero
    ELSE LET r   == Regions(o)[k - 1]
             end == MAdd(ExactBegin(o, k - 1), MMul(r.count, r.size))
         IN  IF Regions(o)[k].begin = "vmctx_globals_begin" THEN RoundUp16(end) ELSE end

RegionOf(o, fn) == CHOOSE k \in DOMAIN Regions(o) : Regions(o)[k].begin = fn

BeginNames == { Regions(offsets)[k].begin : k \in DOMAIN Regions(offsets) }

\* What the code returns for the begin of region k.
CodeBegin(o, k) ==
    CASE k = 1  -> vmctx_signature_ids_begin(o)
      [] k = 2  -> vmctx_imported_functions_begin(o)
      [] k = 3  -> vmctx_imported_tables_begin(o)
      [] k = 4  -> vmctx_imported_memories_begin(o)
      [] k = 5  -> vmctx_imported_globals_begin(o)
      [] k = 6  -> vmctx_tables_begin(o)
      [] k = 7  -> vmctx_memories_begin(o)
      [] k = 8  -> vmctx_globals_begin(o)
      [] k = 9  -> vmctx_builtin_functions_begin(o)
      [] k = 10 -> size_of_vmctx(o)

\* No computation of the layout overflows 32 bits.
NoOverflow(o) == IsU32(ExactBegin(o, 10))

\* The record accessors: the region each addresses, and the field offset
\* the field-level ones add.
Accessors(o) ==
    [ vmctx_vmshared_signature_id |-> [region |-> 1, field |-> 0],
      vmctx_vmfunction_import     |-> [region |-> 2, field |-> 0],
      vmctx_vmtable_import        |-> [region |-> 3, field |-> 0],
      vmctx_vmmemory_import       |-> [region |-> 4, field |-> 0],
      vmctx_vmglobal_import       |-> [region |-> 5, field |-> 0],
      vmctx_vmtable_definition    |-> [region |-> 6, field |-> 0],
      vmctx_vmmemory_definition   |-> [region |-> 7, field |-> 0],
      vmctx_vmglobal_definition   |-> [region |-> 8, field |-> 0],
      vmctx_vmfunction_import_body              |-> [region |-> 2, field |-> 0],
      vmctx_vmfunction_import_vmctx             |-> [region |-> 2, field |-> o.pointer_size],
      vmctx_vmtable_import_definition           |-> [region |-> 3, field |-> 0],
      vmctx_vmtable_definition_base             |-> [region |-> 6, field |-> 0],
      vmctx_vmtable_definition_current_elements |-> [region |-> 6, field |-> o.pointer_size],
      vmctx_vmmemory_import_definition          |-> [region |-> 4, field |-> 0],
      vmctx_vmmemory_import_from                |-> [region |-> 4, field |-> o.pointer_size],
      vmctx_vmmemory_definition_base            |-> [region |-> 7, field |-> 0],
      vmctx_vmmemory_definition_current_length  |-> [region |-> 7, field |-> o.pointer_size],
      vmctx_vmglobal_import_definition          |-> [region |-> 5, field |-> 0] ]

AccessorNames == DOMAIN Accessors(offsets)

RecordAccessorNames ==
    { "vmctx_vmshared_signature_id", "vmctx_vmfunction_import", "vmctx_vmtable_import",
      "vmctx_vmmemory_import", "vmctx_vmglobal_import", "vmctx_vmtable_definition",
      "vmctx_vmmemory_definition", "vmctx_vmglobal_definition" }

\* The exact result of a call: base + index * record_size (+ field offset).
ExactResult(o, fn, index) ==
    IF fn \in BeginNames THEN ExactBegin(o, RegionOf(o, fn))
    ELSE IF fn = "vmctx_builtin_function"
         THEN MAdd(ExactBegin(o, 9), MMul(index, o.pointer_size))
    ELSE LET a == Accessors(o)[fn]
             r == Regions(o)[a.region]
         IN  MAdd(MAdd(ExactBegin(o, a.region), MMul(index, r.size)), FromInt(a.field))

OffsetNames == BeginNames \cup AccessorNames \cup {"vmctx_builtin_function"}


----------------------------------------------------------------------------
(* Claims about VMOffsets, checked under SpecVM. *)

\* C1: for pointer_size in {4, 8} and counts for which no computation
\* overflows, every record accessor that returns an offset returns one
\* whose record ends before size_of_vmctx(), and vmctx_globals_begin() is
\* a multiple of 16.
C1_RecordsWithinVmctx ==
    /\ (/\ ret.fn \in RecordAccessorNames
        /\ ~IsPanic(ret.value)
        /\ offsets.pointer_size \in {4, 8}
        /\ NoOverflow(offsets)) =>
          /\ Le(Zero, ret.value)
          /\ Lt(MAdd(ret.value,
                     FromInt(Regions(offsets)[Accessors(offsets)[ret.fn].region].size)),
                size_of_vmctx(offsets))
    /\ (/\ ret.fn = "vmctx_globals_begin"
        /\ offsets.pointer_size \in {4, 8}
        /\ NoOverflow(offsets)) =>
          /\ ~IsPanic(ret.value)
          /\ ret.value.lo % 16 = 0

\* C1 witness: a global definition is addressed in a layout whose globals
\* region had to be moved up to reach a multiple of 16.
C1_Witness ==
    /\ ret.fn = "vmctx_vmglobal_definition"
    /\ ~IsPanic(ret.value)
    /\ NoOverflow(offsets)
    /\ vmctx_memories_begin(offsets).lo % 16 # 0

\* C2: the regions follow one another in layout order: each begin is the
\* previous begin plus count * record_size (the globals begin rounded up to
\* a multiple of 16), so the begins never decrease; and in the layout
\* scenario the first three begins are 0, 8 and 24.
C2_RegionsInLayoutOrder ==
    /\ (ret.fn \in BeginNames /\ ~IsPanic(ret.value) /\ RegionOf(offsets, ret.fn) > 1) =>
          LET k    == RegionOf(offsets, ret.fn)
              prev == CodeBegin(offsets, k - 1)
              r    == Regions(offsets)[k - 1]
              end  == MAdd(prev, MMul(r.count, r.size))
          IN  /\ ~IsPanic(prev)
              /\ ret.value = IF ret.fn = "vmctx_globals_begin" THEN RoundUp16(end) ELSE end
              /\ Le(prev, ret.value)
    /\ (offsets = Scenario6Offsets) =>
          /\ ret.fn = "vmctx_signature_ids_begin" => ret.value = FromInt(0)
          /\ ret.fn = "vmctx_imported_functions_begin" => ret.value = FromInt(8)
          /\ ret.fn = "vmctx_imported_tables_begin" => ret.value = FromInt(24)

\* C3: every offset computation returns the exact result or fails the
\* process; none returns a value that wrapped modulo 2^32.
C3_ExactOrFails ==
    (ret.fn \in OffsetNames /\ ~IsPanic(ret.value)) =>
        ret.value = ExactResult(offsets, ret.fn, ret.index)

\* The count an accessor checks its index against.
CountOf(o, fn) == Regions(o)[Accessors(o)[fn].region].count

\* C4: an accessor called with an index that is not below the count of its
\* region fails the process and returns no offset.
C4_IndexOutOfRangeFails ==
    (ret.fn \in AccessorNames /\ ~Lt(ret.index, CountOf(offsets, ret.fn))) =>
        IsPanic(ret.value)

\* C4 witness: a field-level accessor was called with the index just past
\* the last record, in a layout that does not overflow, and it failed.
C4_Witness ==
    /\ ret.fn = "vmctx_vmmemory_definition_current_length"
    /\ offsets.num_defined_memories = FromInt(1)
    /\ ret.index = FromInt(1)
    /\ NoOverflow(offsets)
    /\ IsPanic(ret.value)

\* C5: the constructors give the 13 indices 0..12 in the order of the
\* builtin table, nothing else is constructible, and every entry lies at
\* builtin begin + index * pointer_size, within the VMContext.
C5_BuiltinTable ==
    (ret.fn = "vmctx_builtin_function") =>
        /\ BuiltinConstructors = [k \in 1..13 |-> k - 1]
        /\ builtin_functions_total_number = 13
        /\ Cardinality(BuiltinIndexes) = builtin_functions_total_number
        /\ BuiltinIndexes = 0..12
        /\ get_memory32_grow_index = 0 /\ get_imported_memory32_grow_index = 1
        /\ get_memory32_size_index = 2 /\ get_imported_memory32_size_index = 3
        /\ get_table_copy_index = 4 /\ get_table_init_index = 5
        /\ get_elem_drop_index = 6 /\ get_defined_memory_copy_index = 7
        /\ get_imported_memory_copy_index = 8 /\ get_memory_fill_index = 9
        /\ get_imported_memory_fill_index = 10 /\ get_memory_init_index = 11
        /\ get_data_drop_index = 12
        /\ ret.index \in { FromInt(b) : b \in 0..12 }
        /\ ~IsPanic(ret.value) =>
              /\ ~IsPanic(vmctx_builtin_functions_begin(offsets))
              /\ ret.value = MAdd(vmctx_builtin_functions_begin(offsets),
                                  MMul(ret.index, offsets.pointer_size))
              /\ ~IsPanic(size_of_vmctx(offsets)) =>
                    Le(MAdd(ret.value, FromInt(offsets.pointer_size)),
                       size_of_vmctx(offsets))

\* C5 witness: the last builtin, data_drop, is addressed behind a globals
\* region that is not empty.
C5_Witness ==
    /\ ret.fn = "vmctx_builtin_function"
    /\ ret.index = FromInt(get_data_drop_index)
    /\ offsets.num_defined_globals = FromInt(1)
    /\ ~IsPanic(ret.value)
    /\ ~IsPanic(size_of_vmctx(offsets))

\* The layout table: for each record its total size and its fields, each
\* with the offset the code gives and the size the table gives.
RecordTable(o) ==
    LET P == o.pointer_size IN
    << [ total  |-> size_of_vmfunction_import(o), expect |-> 2 * P,
         fields |-> << [at |-> vmfunction_import_body(o),  expect |-> 0, size |-> P],
                       [at |-> vmfunction_import_vmctx(o), expect |-> P, size |-> P] >> ],
       [ total  |-> size_of_vmtable_import(o), expect |-> 2 * P,
         fields |-> << [at |-> vmtable_import_definition(o), expect |-> 0, size |-> P],
                       [at |-> vmtable_import_from(o),       expect |-> P, size |-> P] >> ],
       [ total  |-> size_of_vmtable_definition(o), expect |-> 2 * P,
         fields |-> << [at |-> vmtable_definition_base(o), expect |-> 0, size |-> P],
                       [at |-> vmtable_definition_current_elements(o), expect |-> P,
                        size |-> size_of_vmtable_definition_current_elements(o)] >> ],
       [ total  |-> size_of_vmmemory_import(o), expect |-> 2 * P,
         fields |-> << [at |-> vmmemory_import_definition(o), expect |-> 0, size |-> P],
                       [at |-> vmmemory_import_from(o),       expect |-> P, size |-> P] >> ],
       [ total  |-> size_of_vmmemory_definition(o), expect |-> 2 * P,
         fields |-> << [at |-> vmmemory_definition_base(o), expect |-> 0, size |-> P],
                       [at |-> vmmemory_definition_current_length(o), expect |-> P,
                        size |-> size_of_vmmemory_definition_current_length(o)] >> ],
       [ total  |-> size_of_vmglobal_import(o), expect |-> P,
         fields |-> << [at |-> vmglobal_import_definition(o), expect |-> 0, size |-> P] >> ],
       [ total  |-> size_of_vmglobal_definition(o), expect |-> 16,
         fields |-> << [at |-> 0, expect |-> 0, size |-> 16] >> ],
       [ total  |-> size_of_vmshared_signature_index(o), expect |-> 4,
         fields |-> << [at |-> 0, expect |-> 0, size |-> 4] >> ],
       [ total  |-> size_of_vmcaller_checked_anyfunc(o), expect |-> 3 * P,
         fields |-> << [at |-> vmcaller_checked_anyfunc_func_ptr(o),   expect |-> 0,     size |-> P],
                       [at |-> vmcaller_checked_anyfunc_type_index(o), expect |-> P,     size |-> P],
                       [at |-> vmcaller_checked_anyfunc_vmctx(o),      expect |-> 2 * P, size |-> P] >> ] >>

\* The record-layout functions.
LayoutNames ==
    { "vmfunction_import_body", "vmfunction_import_vmctx", "size_of_vmfunction_import",
      "size_of_vmfunction_body_ptr", "vmtable_import_definition", "vmtable_import_from",
      "size_of_vmtable_import", "vmtable_definition_base",
      "vmtable_definition_current_elements",
      "size_of_vmtable_definition_current_elements", "size_of_vmtable_definition",
      "vmmemory_import_definition", "vmmemory_import_from", "size_of_vmmemory_import",
      "vmmemory_definition_base", "vmmemory_definition_current_length",
      "size_of_vmmemory_definition_current_length", "size_of_vmmemory_definition",
      "vmglobal_import_definition", "size_of_vmglobal_import",
      "size_of_vmglobal_definition", "size_of_vmshared_signature_index",
      "vmcaller_checked_anyfunc_func_ptr", "vmcaller_checked_anyfunc_type_index",
      "vmcaller_checked_anyfunc_vmctx", "size_of_vmcaller_checked_anyfunc" }

----------------------------------------------------------------------------
(* Claims about the translator, checked under SpecEnv. *)

\* C7: no shared memory is accepted: while every declare operation has
\* returned Ok, no entry of memory_plans stems from a memory declared with
\* shared = true, whether it was defined or imported.
C7_SharedMemoryRejected ==
    (status = "ok") =>
        \A i \in DOMAIN module.memory_plans : ~module.memory_plans[i].memory.shared

\* The index spaces: the list, its count of imports, and the kind its
\* imports are recorded under.
IndexSpaces(m) ==
    { [list |-> m.functions,    by |-> m.declared_by.functions,
       num_imported |-> m.num_imported_funcs,    kind |-> "Function"],
      [list |-> m.table_plans,  by |-> m.declared_by.table_plans,
       num_imported |-> m.num_imported_tables,   kind |-> "Table"],
      [list |-> m.memory_plans, by |-> m.declared_by.memory_plans,
       num_imported |-> m.num_imported_memories, kind |-> "Memory"],
      [list |-> m.globals,      by |-> m.declared_by.globals,
       num_imported |-> m.num_imported_globals,  kind |-> "Global"] }

\* C8: after the declare calls the translator accepted, in every index
\* space the imports are at most as many as the entries, exactly the first
\* num_imported entries were pushed by an import declaration, and the k-th
\* import of a class is recorded under ImportIndex k of that class.
C8_ImportsOccupyLowEnd ==
    (status = "ok") =>
        /\ \A E \in IndexSpaces(module) :
              /\ E.num_imported <= Len(E.list)
              /\ \A i \in DOMAIN E.list : (E.by[i] = "import") <=> (i <= E.num_imported)
        /\ \A n \in DOMAIN module.imports :
              module.imports[n].value.index =
                  Cardinality({ j \in 1..(n - 1) :
                      module.imports[j].value.kind = module.imports[n].value.kind })

\* C9: an import declared after a local definition of its class is
\* rejected: in no state does an import sit above a local definition in an
\* index space.
C9_NoImportAboveLocal ==
    \A E \in IndexSpaces(module) :
        \A i, j \in DOMAIN E.list :
            (i < j /\ E.by[i] = "local") => E.by[j] # "import"

\* C10: once declare_start_func has set start_func, a second call is
\* rejected and start_func keeps the first function index.
C10_StartFuncKeepsFirst ==
    [][module.start_func # None => module'.start_func = module.start_func]_vars


\* C11: a passive element or data segment declared under an index that
\* already has one is rejected: whenever a declaration returns, every
\* index that had a segment still has the segment of its first declaration.
C11_PassiveDuplicatesRejected ==
    [][status' = "ok" =>
         /\ \A k \in DOMAIN module.passive_elements :
                module'.passive_elements[k] = module.passive_elements[k]
         /\ \A k \in DOMAIN module.passive_data :
                module'.passive_data[k] = module.passive_data[k]]_vars


\* The values the tunables table gives for a pointer width on a target
\* other than Windows: bound in Wasm pages, static guard in bytes.
TunablesTable(width) ==
    CASE width = "U64" -> [bound |-> 65536, guard |-> U32(32768, 0)]
      [] width = "U32" -> [bound |-> 16384, guard |-> U32(1, 0)]
      [] width = "U16" -> [bound |-> 1024,  guard |-> FromInt(4096)]

\* C12: for_target depends on the pointer width and the operating system
\* alone: off Windows it returns the table's bound and static guard for the
\* width, on Windows the bound is the smaller of the table's and 0x100 and
\* the guard the smaller of the table's and 0x1_0000, and the dynamic guard
\* is 0x1_0000 on every target.
C12_TunablesOfTarget ==
    tunables # None =>
        LET t == tunables[1]
            row == TunablesTable(Triple_pointer_width(triple)[1])
        IN  /\ Triple_pointer_width(triple) # None
            /\ t.dynamic_memory_offset_guard_size = U32(1, 0)
            /\ IF triple.operating_system = "Windows"
               THEN /\ t.static_memory_bound =
                          (IF row.bound < 256 THEN row.bound ELSE 256)
                    /\ t.static_memory_offset_guard_size =
                          (IF Lt(row.guard, U32(1, 0)) THEN row.guard ELSE U32(1, 0))
               ELSE /\ t.static_memory_bound = row.bound
                    /\ t.static_memory_offset_guard_size = row.guard

\* C12 witness: for_target has returned for a 64-bit Windows target, where
\* both clamps take effect.
C12_Witness ==
    /\ tunables # None
    /\ triple.operating_system = "Windows"
    /\ Triple_pointer_width(triple) = Some("U64")
    /\ tunables[1].static_memory_bound = 256
    /\ tunables[1].static_memory_offset_guard_size = U32(1, 0)


\* The steps of instantiate in the order of the protocol.
StepOrder ==
    << "preinstantiate", "resolve_imports", "create_memories", "create_tables",
       "create_globals", "register_frame_info", "InstanceHandle_new" >>

\* The steps whose failure is a link error.
LinkSteps ==
    { "resolve_imports", "create_memories", "create_tables", "create_globals" }

\* The current call has returned after its last step failed.
FailedAt(steps) ==
    /\ pc = "returned"
    /\ trace # << >>
    /\ ~trace[Len(trace)].ok
    /\ trace[Len(trace)].step \in steps

\* C13: the steps of an instantiate call occur in the protocol's order, a
\* step starts only after every earlier step has succeeded, and a handle
\* is built only after register_frame_info was called in the same call.
C13_StepsInFixedOrder ==
    /\ Len(trace) <= Len(StepOrder)
    /\ \A i \in DOMAIN trace :
          /\ trace[i].step = StepOrder[i]
          /\ i < Len(trace) => trace[i].ok
    /\ \A j \in DOMAIN trace :
          trace[j].step = "InstanceHandle_new" =>
              /\ frame_info
              /\ \E i \in 1..(j - 1) :
                    trace[i].step = "register_frame_info" /\ trace[i].ok
    /\ (result # None /\ result[1].ok) =>
          \E j \in DOMAIN trace : trace[j].step = "InstanceHandle_new"

\* C13 witness: the second instantiate call of an artifact has built its
\* handle after all seven steps.
C13_Witness ==
    /\ calls = 2
    /\ result # None
    /\ result[1].ok
    /\ Len(trace) = 7

\* C14: a failure of import resolution or of a create_* step is returned
\* as Link of that step's error, unchanged, and ends the call: frame info
\* is not registered by the call and no handle is built.  An import the
\* resolver does not supply fails the resolution.  A failure of
\* preinstantiate is returned as it is, before any import is resolved.
C14_LinkErrorsEndTheCall ==
    /\ FailedAt(LinkSteps) =>
          /\ raised # None
          /\ result = Some([ok |-> FALSE,
                            error |-> [variant |-> "Link", error |-> raised[1]]])
          /\ raised[1].kind =
                (IF trace[Len(trace)].step = "resolve_imports"
                 THEN "Import" ELSE "Resource")
          /\ \A i \in DOMAIN trace :
                trace[i].step \notin {"register_frame_info", "InstanceHandle_new"}
    /\ (Len(trace) >= 2 /\ ~(artifact.imports \subseteq resolver)) =>
          /\ FailedAt({"resolve_imports"})
          /\ raised[1].what \in artifact.imports \ resolver
    /\ FailedAt({"preinstantiate"}) =>
          /\ raised # None
          /\ result = Some([ok |-> FALSE, error |-> raised[1]])
          /\ Len(trace) = 1

\* C14 witness: the module declares an import, the import object is empty,
\* and the call has returned from the resolution of the imports.
C14_Witness ==
    /\ FailedAt({"resolve_imports"})
    /\ artifact.imports # {}
    /\ resolver = {}

\* C15: when instantiate has failed, nothing the call created is live and
\* none of its local values is left; no handle was returned.
C15_FailureReleasesResources ==
    (pc = "returned" /\ result # None /\ ~result[1].ok) =>
        /\ locals = NoLocals
        /\ \A r \in live : r[1] # calls

\* C15 witness: the second call failed creating the globals, after its
\* imports, memories and tables were created; the resources of the first
\* call, which succeeded, are live.
C15_Witness ==
    /\ FailedAt({"create_globals"})
    /\ calls = 2
    /\ live # {}

\* C16: a trap of InstanceHandle::new or of finish_instantiation is
\* returned as Start of the runtime error made from the trap, never as
\* Link; a failure of steps 2 to 5 is never returned as Start.
C16_TrapsAreStartErrors ==
    /\ FailedAt({"InstanceHandle_new"}) =>
          /\ raised # None
          /\ raised[1] \in Traps
          /\ result = Some([ok |-> FALSE,
                            error |-> [variant |-> "Start",
                                       error |-> [kind |-> "Trap",
                                                  trap |-> raised[1]]]])
    /\ (finished # None /\ ~finished[1].ok) =>
          /\ raised # None
          /\ raised[1] \in Traps
          /\ finished = Some([ok |-> FALSE,
                              error |-> [variant |-> "Start",
                                         error |-> [kind |-> "Trap",
                                                    trap |-> raised[1]]]])
    /\ FailedAt(LinkSteps) => result[1].error.variant # "Start"

\* C16 witness: finish_instantiation has returned the Unreachable trap of
\* a start function.
C16_Witness ==
    /\ finished # None
    /\ ~finished[1].ok
    /\ raised = Some("Unreachable")


\* C17: when the host function raises a payload, no instruction of run
\* after the call executes and the call of the export never returns Ok; it
\* returns an error whose downcast to the payload's type is the payload
\* raised; main ends with the exit code when the payload is an ExitCode.
C17_RaiseAbandonsWasm ==
    host_raises # None =>
        /\ \A i \in DOMAIN executed : executed[i] # "i32.add"
        /\ call_ret # None =>
              /\ ~call_ret[1].ok
              /\ LET d == call_ret[1].error.payload
                 IN  /\ d = host_raises[1]
                     /\ (d.type = "ExitCode" /\ main_ret # None) =>
                            main_ret = Some([ok |-> TRUE,
                                             value |-> [exit_code |-> host_raises[1]]])

\* C17 witness: run(1, 7) with a host function raising ExitCode(1) has
\* ended main with that exit code.
C17_Witness ==
    /\ args = <<1, 7>>
    /\ host_raises = Some([type |-> "ExitCode", code |-> 1])
    /\ main_ret = Some([ok |-> TRUE,
                        value |-> [exit_code |-> [type |-> "ExitCode", code |-> 1]]])


\* The Wasm type a Rust type stands for.
TypeTag(t) ==
    CASE t = "i32" -> "I32" [] t = "i64" -> "I64"
      [] t = "f32" -> "F32" [] t = "f64" -> "F64"

\* C18: the type of a Func has the Wasm types of the host function's
\* parameters as params and of its results as results, each in the order
\* of declaration, whether or not the Func has an environment.
C18_FuncTypeInOrder ==
    (outcome # None /\ outcome[1].fn = "ty") =>
        LET h == subject[1].host
            t == outcome[1].value
        IN  /\ Len(t.params) = Len(h.args)
            /\ Len(t.results) = Len(h.rets)
            /\ \A i \in DOMAIN h.args : t.params[i] = TypeTag(h.args[i])
            /\ \A i \in DOMAIN h.rets : t.results[i] = TypeTag(h.rets[i])

\* C18 witness: the type of fn(f32, i32) -> (i32, f32) was asked for.
C18_Witness ==
    /\ outcome # None
    /\ outcome[1].fn = "ty"
    /\ subject[1].host.args = <<"f32", "i32">>
    /\ subject[1].host.rets = <<"i32", "f32">>
    /\ outcome[1].value = [params |-> <<"F32", "I32">>, results |-> <<"I32", "F32">>]

\* C19: called through its raw pointer, a host function without
\* environment returns what it returns for the arguments, whatever the two
\* leading slots, and its Func has no environment; one with environment
\* works on the environment of the first slot, which keeps its writes,
\* and its Func has the environment it was made with.
C19_LeadingSlots ==
    /\ (outcome # None /\ outcome[1].fn = "wrap") =>
          LET h == subject[1].host
              o == outcome[1]
          IN  IF h.kind = "WithoutEnv"
              THEN /\ o.value = [j \in DOMAIN h.rets |-> 2 * Sum(o.args)]
                   /\ subject[1].heap = <<2, 3>>
              ELSE /\ o.value = [j \in DOMAIN h.rets |-> o.num * Sum(o.args)]
                   /\ o.num = <<2, 3>>[o.slots[1]]
                   /\ subject[1].heap[o.slots[1]] = 10
    /\ (subject # None /\ subject[1].func # None) =>
          (subject[1].func[1].env = None <=> subject[1].host.kind = "WithoutEnv")


\* C20: the bits of SourceLoc::new(b) are b; the default location is the
\* default; and SourceLoc::new(b) is the default exactly when b is the
\* all-ones pattern.
C20_SourceLocBits ==
    outcome # None =>
        LET o == outcome[1]
            made == subject[1].made
            b == subject[1].arg
        IN  /\ (o.fn = "bits" /\ made = "new") => o.value = b
            /\ (o.fn = "is_default" /\ made = "default") => o.value = TRUE
            /\ (o.fn = "is_default" /\ made = "new") =>
                  (o.value <=> (b.hi = 65535 /\ b.lo = 65535))

\* C20 witness: is_default was asked of SourceLoc::new(0xFFFF_FFFF) and
\* answered true.
C20_Witness ==
    /\ outcome = Some([fn |-> "is_default", value |-> TRUE])
    /\ subject[1].made = "new"
    /\ subject[1].arg = [hi |-> 65535, lo |-> 65535]


\* C21: for a type list of arity N in 0..5, empty_array has N slots,
\* into_array returns an array of N slots, from_array gives back the tuple
\* the slots were made from, and neither conversion fails.
C21_ArrayRoundTrip ==
    outcome # None =>
        LET o == outcome[1]
            N == Len(subject[1].list)
        IN  /\ ~o.panicked
            /\ o.fn \in {"empty_array", "into_array"} => Len(o.value) = N
            /\ o.fn = "from_array" => o.value = subject[1].x


----------------------------------------------------------------------------
(* Claims about the signatures, checked under SpecSignatures, and about    *)
(* the function names, checked under SpecNames.                            *)

\* C22: signatures are not deduplicated and their indices are stable: the
\* k-th call of declare_signature stores its function type at index k,
\* also when an equal type was declared before, so signatures has one
\* entry for each call; and no declare operation changes or removes a
\* stored signature.
C22_SignaturesStable ==
    /\ [](module.signatures = module.declared_by.signatures)
    /\ [][/\ Len(module'.signatures) >= Len(module.signatures)
          /\ \A k \in DOMAIN module.signatures :
                module'.signatures[k] = module.signatures[k]]_vars

\* Equal function types were declared twice, and other entities after them.
C22_Witness ==
    /\ Len(module.signatures) = 2
    /\ module.signatures[1] = module.signatures[2]
    /\ Len(module.functions) = 1

----------------------------------------------------------------------------
(* Claims about the imports of the translator, checked under SpecEnv. *)

\* C29: the import counter of the translator is the sum of the four
\* counts of imported entities and the number of entries of
\* module.imports; the entries are keyed by (module, field, ordinal) with
\* the ordinals 0..n-1 in the order of the declarations, so imports of one
\* name do not replace one another.
C29_ImportsCounted ==
    /\ imports = module.num_imported_funcs + module.num_imported_tables
                     + module.num_imported_memories + module.num_imported_globals
    /\ imports = Len(module.imports)
    /\ \A i \in DOMAIN module.imports : module.imports[i].key[3] = i - 1

\* Three imports of one module and field name, of different kinds.
C29_Witness ==
    /\ imports = 3
    /\ \A i \in DOMAIN module.imports :
          /\ module.imports[i].key[1] = module.imports[1].key[1]
          /\ module.imports[i].key[2] = module.imports[1].key[2]
    /\ module.num_imported_funcs = 1
    /\ module.num_imported_memories = 1


\* C30: when declare_memory returns Unsupported for a shared memory, the
\* module and the import counter are as they were before the call, and
\* translate returns that error and no ModuleTranslation: it returns a
\* translation, with module_translation set, only when every declare
\* operation returned Ok.
C30_UnsupportedLeavesState ==
    /\ [][status' \notin {"ok", "panic"} =>
             /\ module' = module
             /\ imports' = imports]_vars
    /\ [](outcome # None =>
            IF status = "ok"
            THEN /\ outcome[1].ok
                 /\ outcome[1].value.module = module
                 /\ outcome[1].value.module_translation # None
            ELSE /\ ~outcome[1].ok
                 /\ outcome[1].error = status)

\* translate has returned Unsupported after other entities were declared.
C30_Witness ==
    /\ outcome = Some(Err("Unsupported: shared memories are not supported yet"))
    /\ Len(module.functions) = 1
    /\ Len(module.memory_plans) = 1


----------------------------------------------------------------------------
(* Claims about the alignment of the regions, checked under SpecVM. *)

\* The begins of the regions whose records hold pointer-sized fields.
PointerRegionBegins ==
    { "vmctx_imported_functions_begin", "vmctx_imported_tables_begin",
      "vmctx_imported_memories_begin", "vmctx_imported_globals_begin",
      "vmctx_tables_begin", "vmctx_memories_begin",
      "vmctx_builtin_functions_begin" }

\* C23: for pointer_size 4 or 8 and any counts, an odd num_signature_ids
\* included, every region that holds pointer-sized fields begins at a
\* multiple of pointer_size.
C23_PointerRegionsAligned ==
    (/\ ret.fn \in PointerRegionBegins
     /\ ~IsPanic(ret.value)
     /\ offsets.pointer_size \in {4, 8}) =>
        ret.value.lo % offsets.pointer_size = 0


----------------------------------------------------------------------------
(* Claims about the offsets of a translated module, checked under          *)
(* SpecCompile.                                                            *)

\* C24: VMOffsets::new records as num_defined_tables, num_defined_memories
\* and num_defined_globals the number of tables, memories and globals the
\* module defines itself: the length of the index space less the number of
\* imports of the class.
C24_DefinedCountsAreLocal ==
    (ret.fn = "VMOffsets::new") =>
        LET m == outcome[1].value.module
        IN  /\ offsets.num_defined_tables
                  = FromInt(Len(m.table_plans) - m.num_imported_tables)
            /\ offsets.num_defined_memories
                  = FromInt(Len(m.memory_plans) - m.num_imported_memories)
            /\ offsets.num_defined_globals
                  = FromInt(Len(m.globals) - m.num_imported_globals)


----------------------------------------------------------------------------
(* Claims about the data initializers, checked under SpecArtifact. *)

\* C25: finish_instantiation gives the handle one DataInitializer for each
\* data initializer of the artifact, in their order, with the same
\* location and the same bytes; and instantiate gives the handle none:
\* they are given only by finish_instantiation, for a handle instantiate
\* has returned.
C25_InitializersHandedOnFinish ==
    /\ handed # None =>
          /\ Len(handed[1]) = Len(artifact.data_initializers)
          /\ \A i \in DOMAIN handed[1] :
                /\ handed[1][i].location = artifact.data_initializers[i].location
                /\ handed[1][i].data = artifact.data_initializers[i].data
    /\ handed # None <=> finished # None
    /\ finished # None => (pc = "returned" /\ result # None /\ result[1].ok)

\* The second handle of an artifact with two different data initializers,
\* the second at an offset, has been finished.
C25_Witness ==
    /\ calls = 2
    /\ finished # None
    /\ handed # None
    /\ Len(handed[1]) = 2
    /\ handed[1][1] # handed[1][2]
    /\ handed[1][2].location.offset = 4


----------------------------------------------------------------------------
(* Claims about the unwind information, checked under SpecUnwind. *)

\* The bytes of an unwind info.
BytesOf(u) ==
    CASE u.shape = "None" -> << >>
      [] u.shape = "Windows" -> u.d
      [] u.shape = "FrameLayout" -> u.code

\* C27: is_empty holds exactly when len is 0; serialize into a destination
\* of len bytes changes nothing for None, copies the bytes and leaves the
\* relocations for Windows, and for FrameLayout copies the bytes and
\* appends one FunctionTableReloc for each entry, in order, with the
\* entry's offset and addend, failing the process when the size of an
\* entry is not 8.
C27_SerializeUnwindInfo ==
    (outcome # None) =>
        LET u == subject[1].u
            o == outcome[1]
        IN  /\ o.fn = "is_empty" =>
                  (o.value <=> CompiledFunctionUnwindInfo_len(u) = 0)
            /\ o.fn = "len" => o.value = Len(BytesOf(u))
            /\ (o.fn = "serialize" /\ u.shape = "None") =>
                  /\ ~o.value.panicked
                  /\ o.value.dest = subject[1].dest
                  /\ o.value.relocs = subject[1].relocs
            /\ (o.fn = "serialize" /\ u.shape = "Windows") =>
                  /\ ~o.value.panicked
                  /\ o.value.dest = u.d
                  /\ o.value.relocs = subject[1].relocs
            /\ (o.fn = "serialize" /\ u.shape = "FrameLayout") =>
                  IF \E i \in DOMAIN u.r : u.r[i][3] # 8
                  THEN o.value.panicked
                  ELSE /\ ~o.value.panicked
                       /\ o.value.dest = u.code
                       /\ o.value.relocs =
                            subject[1].relocs \o
                              [ i \in DOMAIN u.r |->
                                  [offset |-> u.r[i][2], addend |-> u.r[i][1]] ]


----------------------------------------------------------------------------
(* Claims about the compiled functions, checked under SpecCompilation. *)

\* The shapes of unwind info that match a target: Windows UNWIND_INFO on
\* Windows, a frame layout elsewhere, and None where there are no bytes.
ShapesOfTarget(os, bytes) ==
    { IF os = "Windows" THEN "Windows" ELSE "FrameLayout" }
        \cup { s \in {"None"} : bytes = << >> }

\* C28: for ranges that lie in the buffer, from_buffer gives one
\* CompiledFunction for each tuple, in their order; its body is
\* buffer[body_range], its relocations, traps and jump table offsets are
\* the tuple's, its unwind info has the shape of the target and the bytes
\* buffer[unwind_range]; len is the number of tuples, and get_jt_offsets,
\* get_relocations and get_traps have that length and at each index what
\* get returns there.
C28_FromBuffer ==
    (/\ outcome # None
     /\ \A k \in DOMAIN subject[1].functions :
           /\ subject[1].functions[k][1][2] <= Len(subject[1].buffer)
           /\ subject[1].functions[k][3][2] <= Len(subject[1].buffer)) =>
        LET in == subject[1].functions
            o  == outcome[1]
            c  == o.compilation.value
            bytes(r) == SubSeq(subject[1].buffer, r[1] + 1, r[2])
        IN  /\ ~o.compilation.panicked
            /\ Len(c.functions) = Len(in)
            /\ \A k \in DOMAIN in :
                  /\ c.functions[k].body = bytes(in[k][1])
                  /\ c.functions[k].jt_offsets = in[k][2]
                  /\ c.functions[k].relocations = in[k][4]
                  /\ c.functions[k].traps = in[k][5]
                  /\ c.functions[k].unwind_info.shape
                        \in ShapesOfTarget(subject[1].operating_system,
                                           bytes(in[k][3]))
                  /\ c.functions[k].unwind_info.shape # "None" =>
                        c.functions[k].unwind_info.d = bytes(in[k][3])
            /\ o.fn = "len" => o.ret = Len(in)
            /\ (o.fn = "get" /\ o.func < Len(in)) =>
                  /\ ~o.ret.panicked
                  /\ o.ret.value = c.functions[o.func + 1]
            /\ o.fn = "get_jt_offsets" =>
                  /\ Len(o.ret) = Len(in)
                  /\ \A k \in DOMAIN in : o.ret[k] = c.functions[k].jt_offsets
            /\ o.fn = "get_relocations" =>
                  /\ Len(o.ret) = Len(in)
                  /\ \A k \in DOMAIN in : o.ret[k] = c.functions[k].relocations
            /\ o.fn = "get_traps" =>
                  /\ Len(o.ret) = Len(in)
                  /\ \A k \in DOMAIN in : o.ret[k] = c.functions[k].traps

=============================================================================
